---- MODULE Spec2Model ----
(***************************************************************************)
(* A model of the statistics core of lib/statistics.c: the blank-free      *)
(* sorted view, the median, quantile indexing and the quantile function,   *)
(* sigma/MAD clipping and the mode estimator.                               *)
(*                                                                         *)
(* Element values are integers.  A float64 array holds integer-valued      *)
(* doubles; results that are doubles are kept as exact rationals           *)
(* [k, n, d] (k = "num": n/d in lowest terms), or as "nan", "pinf",        *)
(* "ninf".  A standard deviation is kept as the rational it is the square  *)
(* root of, and is only ever compared through squares.                     *)
(***************************************************************************)
EXTENDS Integers, Sequences, FiniteSets, TLC

VARIABLES
  input,   \* the caller's gal_data_t: [type, arr, flag]
  pre,     \* the caller's gal_data_t as it was when the last call started
  call,    \* the last library call and its arguments
  out,     \* what the last call returned
  loc      \* the locals of a call that runs a loop, and where it stands

vars == <<input, pre, call, out, loc>>

(***************************************************************************)
(* Bounds of the model.                                                    *)
(***************************************************************************)
MaxLen == 3
MaxVal == 2
MaxSize == 9
QDen == 8
ClipLen == 7
ClipMaxVal == 5
ModeLen == 9
ModeMaxVal == 3
ModeLongLen == 15
OutlierLen == 8
OutlierMaxVal == 2

(***************************************************************************)
(* Element types and their blank values.                                   *)
(***************************************************************************)
Types == {"uint8", "int8", "float64"}

IsFloat(type) == type = "float64"

\* The code standing for a NaN element of a float64 array.
NaNCode == 1000000

Blank(type) ==
  CASE type = "uint8" -> 255
    [] type = "int8" -> -128
    [] OTHER -> NaNCode

DataVals(type) ==
  CASE type = "uint8" -> 0..MaxVal
    [] type = "int8" -> (-1)..(MaxVal - 1)
    [] OTHER -> 0..MaxVal

\* C comparison of two elements of the type: every comparison with a NaN
\* is false.
IsNaN(type, x) == IsFloat(type) /\ x = NaNCode
Lt(type, a, b) == ~IsNaN(type, a) /\ ~IsNaN(type, b) /\ a < b
Gt(type, a, b) == Lt(type, b, a)
Ge(type, a, b) == ~IsNaN(type, a) /\ ~IsNaN(type, b) /\ a >= b

(***************************************************************************)
(* Exact arithmetic helpers.                                               *)
(***************************************************************************)
Abs(x) == IF x < 0 THEN -x ELSE x

RECURSIVE Gcd(_, _)
Gcd(a, b) == IF b = 0 THEN a ELSE Gcd(b, a % b)

\* C integer division: truncation toward zero.
CDiv(a, b) == IF a >= 0 THEN a \div b ELSE -((-a) \div b)

Num(n, d) ==
  LET g == Gcd(Abs(n), d)
  IN [k |-> "num", n |-> n \div g, d |-> d \div g]
NaN == [k |-> "nan", n |-> 0, d |-> 1]
PInf == [k |-> "pinf", n |-> 0, d |-> 1]
NInf == [k |-> "ninf", n |-> 0, d |-> 1]
IsNum(x) == x.k = "num"

\* Arithmetic and order on the finite results.
RSub(a, b) == Num(a.n * b.d - b.n * a.d, a.d * b.d)
RMul(a, b) == Num(a.n * b.n, a.d * b.d)
RLt(a, b) == a.n * b.d < b.n * a.d
Sq(a) == RMul(a, a)

\* A blank value of the element type, as a result.
BlankVal(type) == IF IsFloat(type) THEN NaN ELSE Num(Blank(type), 1)

(***************************************************************************)
(* gal_data_t flags.                                                       *)
(***************************************************************************)
NoFlags ==
  [blank_ch |-> FALSE, hasblank |-> FALSE,
   sort_ch |-> FALSE, sorted_i |-> FALSE, sorted_d |-> FALSE]

Data(type, arr, flag) == [type |-> type, arr |-> arr, flag |-> flag]

Size(d) == Len(d.arr)

(***************************************************************************)
(* Blank values (lib/blank.c, used by lib/statistics.c).                   *)
(***************************************************************************)
HasBlankScan(d) == \E i \in 1..Size(d) : d.arr[i] = Blank(d.type)

\* gal_blank_present: the cached answer when the flags hold one, else a scan.
BlankPresentValue(d) ==
  IF Size(d) = 0 THEN FALSE
  ELSE IF d.flag.blank_ch THEN d.flag.hasblank
  ELSE HasBlankScan(d)

\* gal_blank_present(d, 1): the dataset with its flags updated.
BlankPresentUpdate(d) ==
  IF Size(d) = 0 \/ d.flag.blank_ch THEN d
  ELSE [d EXCEPT !.flag.blank_ch = TRUE, !.flag.hasblank = HasBlankScan(d)]

RECURSIVE NonBlank(_, _)
NonBlank(type, arr) ==
  IF arr = <<>> THEN <<>>
  ELSE IF Head(arr) = Blank(type) THEN NonBlank(type, Tail(arr))
  ELSE <<Head(arr)>> \o NonBlank(type, Tail(arr))

\* gal_blank_remove: shift the non-blank elements to the start, shrink the
\* size, mark the dataset as checked and blank-free.
BlankRemove(d) ==
  [d EXCEPT !.arr = IF BlankPresentValue(d) THEN NonBlank(d.type, d.arr)
                    ELSE d.arr,
            !.flag.blank_ch = TRUE,
            !.flag.hasblank = FALSE]

(***************************************************************************)
(* Sortedness.                                                             *)
(***************************************************************************)
\* A variant of IS_SORTED that decides on the first two elements alone.
IsSortedScanFirstPair(type, arr) ==
  IF Ge(type, arr[2], arr[1]) THEN "increasing" ELSE "decreasing"

\* The IS_SORTED macro on two or more elements.
IsSortedScan(type, arr) ==
  LET n == Len(arr)
      up == Ge(type, arr[2], arr[1])
      ok == IF up THEN \A i \in 1..(n - 1) : ~Lt(type, arr[i + 1], arr[i])
            ELSE \A i \in 1..(n - 1) : ~Gt(type, arr[i + 1], arr[i])
  IN IF ~ok THEN "not" ELSE IF up THEN "increasing" ELSE "decreasing"

\* The value gal_statistics_is_sorted returns.
IsSortedValue(d) ==
  IF d.flag.sort_ch
  THEN IF d.flag.sorted_i THEN "increasing"
       ELSE IF d.flag.sorted_d THEN "decreasing" ELSE "not"
  ELSE IF Size(d) <= 1 THEN "increasing"
  ELSE IsSortedScan(d.type, d.arr)

\* gal_statistics_is_sorted(d, 1): the dataset with its flags updated.
IsSortedUpdate(d) ==
  IF d.flag.sort_ch THEN d
  ELSE LET r == IsSortedValue(d)
       IN [d EXCEPT !.flag.sort_ch = TRUE,
                    !.flag.sorted_i = (r = "increasing"),
                    !.flag.sorted_d = (r = "decreasing")]

RECURSIVE Insert(_, _)
Insert(x, s) ==
  IF s = <<>> THEN <<x>>
  ELSE IF x <= Head(s) THEN <<x>> \o s
  ELSE <<Head(s)>> \o Insert(x, Tail(s))

RECURSIVE QSort(_)
QSort(s) == IF s = <<>> THEN <<>> ELSE Insert(Head(s), QSort(Tail(s)))

\* gal_statistics_sort_increasing: qsort, then the flags.
SortIncreasing(d) ==
  [d EXCEPT !.arr = QSort(d.arr),
            !.flag.sort_ch = TRUE,
            !.flag.sorted_i = TRUE,
            !.flag.sorted_d = FALSE]

(***************************************************************************)
(* gal_statistics_no_blank_sorted.  The result names the returned dataset  *)
(* (nbs), what the caller's dataset has become (inp), and whether the      *)
(* returned dataset is the caller's own (borrowed).                        *)
(***************************************************************************)
EmptyFlags(flag) ==
  [flag EXCEPT !.sort_ch = TRUE, !.blank_ch = TRUE, !.sorted_i = TRUE,
               !.hasblank = FALSE, !.sorted_d = FALSE]

NBSResult(nbs, inp, borrowed) ==
  [nbs |-> nbs, inp |-> inp, borrowed |-> borrowed]

\* The last step: flags of a zero-sized result.
NBSFinish(r) ==
  IF Size(r.nbs) = 0
  THEN LET z == [r.nbs EXCEPT !.flag = EmptyFlags(r.nbs.flag)]
       IN NBSResult(z, IF r.borrowed THEN z ELSE r.inp, r.borrowed)
  ELSE r

\* The sorted dataset when it is 'noblank' itself, sorted in place.
NBSSortedInPlace(s, inp, own) == NBSResult(s, IF own THEN s ELSE inp, own)

\* A variant of the sorting step that never copies before it sorts.
NBSPickNoCopy(chk, inp, issorted, own, inplace) ==
  IF issorted THEN NBSResult(chk, inp, own)
  ELSE NBSSortedInPlace(SortIncreasing(chk), inp, own)

\* The sorting step once gal_statistics_is_sorted(noblank, 1) has run:
\* 'chk' is 'noblank' with its flags updated, 'inp' the caller's dataset,
\* which is 'chk' iff 'own'.
NBSPick(chk, inp, issorted, own, inplace) ==
  IF issorted
  THEN IF inplace THEN NBSResult(chk, inp, own)
       ELSE NBSResult(chk, inp, FALSE)
  ELSE IF inplace \/ ~own
       THEN NBSSortedInPlace(SortIncreasing(chk), inp, own)
       ELSE NBSResult(SortIncreasing(chk), inp, FALSE)

NBSChecked(chk, inp, issorted, own, inplace) ==
  NBSPick(chk, IF own THEN chk ELSE inp, issorted, own, inplace)

\* The sorting step on 'noblank', which is the caller's dataset iff 'own'
\* ('inp' is the caller's dataset when it is not).
NBSSort(noblank, inp, own, inplace) ==
  IF Size(noblank) = 0
  THEN NBSResult(noblank, IF own THEN noblank ELSE inp, own)
  ELSE NBSChecked(IsSortedUpdate(noblank), inp,
                  IsSortedValue(noblank) # "not", own, inplace)

\* The blank-removal step on 'contig', the caller's dataset after
\* gal_blank_present(contig, 1).
NBSOfContig(contig, hasblank, inplace) ==
  IF hasblank
  THEN NBSFinish(NBSSort(BlankRemove(contig), contig, inplace, inplace))
  ELSE NBSFinish(NBSSort(contig, contig, TRUE, inplace))

NoBlankSorted(d, inplace) ==
  IF Size(d) = 0
  THEN NBSFinish(IF inplace THEN NBSResult(d, d, TRUE)
                 ELSE NBSResult(Data(d.type, <<>>, NoFlags), d, FALSE))
  ELSE NBSOfContig(BlankPresentUpdate(d), BlankPresentValue(d), inplace)


(***************************************************************************)
(* Median.                                                                 *)
(***************************************************************************)
\* A variant of MED_IN_SORTED whose integer division rounds down.
MedInSortedFloor(type, arr) ==
  LET n == Len(arr)
      hi == arr[(n \div 2) + 1]
  IN IF n % 2 = 1 THEN Num(hi, 1)
     ELSE LET lo == arr[n \div 2]
          IN IF IsFloat(type) THEN Num(hi + lo, 2)
             ELSE Num((hi + lo) \div 2, 1)

\* MED_IN_SORTED on a non-empty sorted blank-free array: the expression is
\* evaluated in the element type (after the integer promotions), so an
\* integer type divides with truncation.
MedInSorted(type, arr) ==
  LET n == Len(arr)
      hi == arr[(n \div 2) + 1]
  IN IF n % 2 = 1 THEN Num(hi, 1)
     ELSE LET lo == arr[n \div 2]
          IN IF IsFloat(type) THEN Num(hi + lo, 2)
             ELSE Num(CDiv(hi + lo, 2), 1)

\* statistics_median_in_sorted_no_blank
MedianInSortedNoBlank(d) ==
  IF Size(d) > 0 THEN MedInSorted(d.type, d.arr) ELSE BlankVal(d.type)

\* gal_statistics_median on what no_blank_sorted gave (r).
MedianOfView(r) ==
  [val |-> IF Size(r.nbs) > 0 THEN MedianInSortedNoBlank(r.nbs)
           ELSE BlankVal(r.nbs.type),
   inp |-> r.inp]

\* gal_statistics_median: the value, in the type of the input.
Median(d, inplace) == MedianOfView(NoBlankSorted(d, inplace))

(***************************************************************************)
(* Quantiles.  A quantile is the rational qn/qd.                           *)
(***************************************************************************)
\* GAL_BLANK_SIZE_T, the index that stands for "none".
NoIndex == -1

\* A variant of gal_statistics_quantile_index that rounds a tie up.
QuantileIndexTieUp(size, qn, qd) ==
  LET prod == (size - 1) * qn
      fl == prod \div qd
  IN IF 2 * (prod % qd) >= qd THEN fl + 1 ELSE fl

\* gal_statistics_quantile_index, for size > 0 and 0 <= qn/qd <= 1.
QuantileIndex(size, qn, qd) ==
  LET prod == (size - 1) * qn
      fl == prod \div qd
  IN IF 2 * (prod % qd) > qd THEN fl + 1 ELSE fl

\* A variant of the sanity checks that tests the quantile before the size.
QuantileIndexCallRangeFirst(size, qn, qd) ==
  IF qn < 0 \/ qn > qd THEN [st |-> "abort", idx |-> NoIndex]
  ELSE IF size = 0 THEN [st |-> "blank", idx |-> NoIndex]
  ELSE [st |-> "ok", idx |-> QuantileIndex(size, qn, qd)]

\* gal_statistics_quantile_index with its sanity checks: "blank" for a
\* zero size, "abort" for a quantile outside [0,1].
QuantileIndexCall(size, qn, qd) ==
  IF size = 0 THEN [st |-> "blank", idx |-> NoIndex]
  ELSE IF qn < 0 \/ qn > qd THEN [st |-> "abort", idx |-> NoIndex]
  ELSE [st |-> "ok", idx |-> QuantileIndex(size, qn, qd)]

\* gal_statistics_quantile on what no_blank_sorted gave (r) and the index
\* (qi) of the quantile in it.
QuantileAt(r, qi) ==
  IF Size(r.nbs) = 0
  THEN [st |-> "ok", val |-> BlankVal(r.nbs.type), inp |-> r.inp]
  ELSE IF qi.st = "abort"
  THEN [st |-> "abort", val |-> NaN, inp |-> r.inp]
  ELSE [st |-> "ok", val |-> Num(r.nbs.arr[qi.idx + 1], 1), inp |-> r.inp]

\* On a decreasing dataset the quantile 1-q is read.
QuantileOfView(r, qn, qd) ==
  QuantileAt(r, QuantileIndexCall(Size(r.nbs),
                                  IF r.nbs.flag.sorted_i THEN qn ELSE qd - qn,
                                  qd))

\* gal_statistics_quantile
Quantile(d, qn, qd, inplace) ==
  QuantileOfView(NoBlankSorted(d, inplace), qn, qd)

\* The element the STATS_QFUNC_IND and STATS_QFUNC macros read at 1-based
\* position i: position Len(arr)+1 is one past the end of the array, and
\* what is read there ('past') is whatever the memory holds.
ReadAt(arr, i, past) == IF i <= Len(arr) THEN arr[i] ELSE past

\* STATS_QFUNC_IND: the 0-based index, or NoIndex.
QFuncInd(arr, incr, v, past) ==
  LET n == Len(arr)
      Over(i) == IF incr THEN ReadAt(arr, i, past) > v
                 ELSE ReadAt(arr, i, past) < v
      \* the positions the do-while loop visits
      scan == IF n = 1 THEN {2} ELSE 2..n
      hits == {i \in scan : Over(i)}
      parsed == IF incr THEN v >= arr[1] ELSE v <= arr[1]
  IN IF ~parsed \/ hits = {} THEN NoIndex
     ELSE LET i == CHOOSE h \in hits : \A g \in hits : h <= g
              closerBelow ==
                IF incr THEN v - arr[i - 1] < ReadAt(arr, i, past) - v
                ELSE arr[i - 1] - v < v - ReadAt(arr, i, past)
              a == IF closerBelow THEN i - 1 ELSE i
          IN IF a <= n THEN a - 1 ELSE NoIndex

\* gal_statistics_quantile_function_index on what no_blank_sorted gave (r).
QFuncIndOfView(r, v, past) ==
  [idx |-> IF Size(r.nbs) > 0
           THEN QFuncInd(r.nbs.arr, r.nbs.flag.sorted_i, v, past)
           ELSE NoIndex,
   inp |-> r.inp]

\* gal_statistics_quantile_function_index
QuantileFunctionIndex(d, v, inplace, past) ==
  QFuncIndOfView(NoBlankSorted(d, inplace), v, past)

\* STATS_QFUNC: which infinity a value outside the range gets.
QFuncSide(arr, v, past) ==
  IF arr[1] < ReadAt(arr, 2, past)
  THEN IF v < arr[1] THEN NInf ELSE PInf
  ELSE IF v > arr[1] THEN PInf ELSE NInf

\* The value of gal_statistics_quantile_function for the index found (qfi)
\* on the n elements of arr.
QFuncValue(arr, n, qfi, v, past2) ==
  [val |-> IF n = 0 THEN NaN
           ELSE IF qfi.idx = NoIndex THEN QFuncSide(arr, v, past2)
           ELSE IF n = 1 THEN NaN
           ELSE Num(qfi.idx, n - 1),
   idx |-> qfi.idx,
   inp |-> qfi.inp]

\* gal_statistics_quantile_function on what no_blank_sorted gave (r): the
\* index is found by gal_statistics_quantile_function_index on the caller's
\* dataset.
QFuncOfView(r, v, inplace, past, past2) ==
  QFuncValue(r.nbs.arr, Size(r.nbs),
             QuantileFunctionIndex(r.inp, v, inplace, past), v, past2)

\* gal_statistics_quantile_function: a float64.
QuantileFunction(d, v, inplace, past, past2) ==
  QFuncOfView(NoBlankSorted(d, inplace), v, inplace, past, past2)


(***************************************************************************)
(* Median absolute deviation.                                              *)
(***************************************************************************)
RECURSIVE AbsDev(_, _, _)
AbsDev(arr, mn, md) ==
  IF arr = <<>> THEN <<>>
  ELSE <<Abs(Head(arr) * md - mn)>> \o AbsDev(Tail(arr), mn, md)

\* statistics_mad_in_sorted_no_blank: the absolute differences from the
\* median 'med', sorted, and their median; 'med' and the result are in
\* the type of the input.  The deviations are kept in units of 1/med.d.
MadInSortedNoBlank(d, med) ==
  IF Size(d) = 0 \/ ~IsNum(med) THEN BlankVal(d.type)
  ELSE LET devs == QSort(AbsDev(d.arr, med.n, med.d))
           m == MedInSorted(d.type, devs)
       IN Num(m.n, m.d * med.d)

\* statistics_median_mad with onlymad=1 on 'r', what the in-place median of
\* 'in' (the input or its copy) made of it.
MadOfView(r, d, inplace) ==
  [val |-> MadInSortedNoBlank(r.nbs, MedianInSortedNoBlank(r.nbs)),
   inp |-> IF inplace THEN r.inp ELSE d]

\* statistics_median_mad with onlymad=1 (gal_statistics_mad)
Mad(d, inplace) == MadOfView(NoBlankSorted(d, TRUE), d, inplace)


(***************************************************************************)
(* Mean and standard deviation of a blank-free array.  The standard        *)
(* deviation is returned squared.                                          *)
(***************************************************************************)
RECURSIVE SumSeq(_)
SumSeq(s) == IF s = <<>> THEN 0 ELSE Head(s) + SumSeq(Tail(s))

RECURSIVE SumSq(_)
SumSq(s) == IF s = <<>> THEN 0 ELSE Head(s) * Head(s) + SumSq(Tail(s))

\* gal_statistics_mean
Mean(arr) == IF Len(arr) = 0 THEN NaN ELSE Num(SumSeq(arr), Len(arr))

\* gal_statistics_std_from_sums, squared: (sump2 - sum*sum/num)/num.
StdFromSums2(sum, sump2, num) ==
  IF num = 0 THEN NaN
  ELSE IF num = 1 THEN Num(0, 1)
  ELSE IF sum * sum > sump2 * num THEN Num(0, 1)
  ELSE Num(sump2 * num - sum * sum, num * num)

\* gal_statistics_std, squared.
Std2(arr) ==
  IF Len(arr) = 0 THEN NaN
  ELSE IF Len(arr) = 1 THEN Num(0, 1)
  ELSE StdFromSums2(SumSeq(arr), SumSq(arr), Len(arr))

\* gal_statistics_mean of a dataset: the blank elements are skipped.
MeanOfData(d) == Mean(NonBlank(d.type, d.arr))

\* gal_statistics_std of a dataset, squared: the switch is on the size of
\* the input, blank elements included.
StdOfData(d) ==
  IF Size(d) <= 1 THEN Std2(d.arr)
  ELSE StdFromSums2(SumSeq(NonBlank(d.type, d.arr)),
                    SumSq(NonBlank(d.type, d.arr)),
                    Len(NonBlank(d.type, d.arr)))

\* gal_statistics_mean_std: the mean and the square of the standard
\* deviation.  For one element the mean is the sum of the non-blank
\* elements.
MeanStd(d) ==
  IF Size(d) = 0 THEN [mean |-> NaN, std2 |-> NaN]
  ELSE IF Size(d) = 1
  THEN [mean |-> Num(SumSeq(NonBlank(d.type, d.arr)), 1), std2 |-> Num(0, 1)]
  ELSE [mean |-> MeanOfData(d), std2 |-> StdOfData(d)]

(***************************************************************************)
(* Sigma and MAD clipping (statistics_clip).                               *)
(***************************************************************************)
\* GAL_STATISTICS_CLIP_MAX_CONVERGE
ClipMaxConverge == 50

\* The output array of a clipping call; 'std2' is the square of the STD
\* column, 'status' is out->status.
ClipOut(used, median, std2, mad, mean, clips, status) ==
  [used |-> used, median |-> median, std2 |-> std2, mad |-> mad,
   mean |-> mean, clips |-> clips, status |-> status]

\* statistics_clip_prepare: every column NaN.
ClipOutNaN(status) == ClipOut(NaN, NaN, NaN, NaN, NaN, NaN, status)

\* statistics_clip_prepare: the sanity checks on the two parameters.
ClipParamsOk(multip, param) ==
  /\ multip.n > 0
  /\ param.n > 0
  /\ param.n >= param.d => param.d = 1

\* A variant that applies the tolerance test under both policies.
ByToleranceAlways(param) == param.n > 0

ByTolerance(param) == param.n < param.d

MaxNum(param) == IF ByTolerance(param) THEN ClipMaxConverge ELSE param.n

\* x > center - multip*spread, with m2s2 = (multip*spread)^2 > 0.
AboveLow(x, center, m2s2) ==
  LET diff == RSub(center, Num(x, 1))
  IN diff.n < 0 \/ RLt(Sq(diff), m2s2)

\* x < center + multip*spread
BelowHigh(x, center, m2s2) ==
  LET diff == RSub(Num(x, 1), center)
  IN diff.n < 0 \/ RLt(Sq(diff), m2s2)

\* CLIPALL on the window w (the 'size' elements from 'start'): the new
\* 'start' and 'size'.  'a' is the first element in range from the start,
\* 'b' the last one in range from the end; with none in range 'start'
\* (or 'size') keeps its value.
ClipAll(w, incr, center, m2s2, start, size) ==
  LET n == Len(w)
      lows == {i \in 1..n : IF incr THEN AboveLow(w[i], center, m2s2)
                            ELSE BelowHigh(w[i], center, m2s2)}
      highs == {i \in 1..n : IF incr THEN BelowHigh(w[i], center, m2s2)
                             ELSE AboveLow(w[i], center, m2s2)}
      a == IF lows = {} THEN n + 1 ELSE CHOOSE i \in lows : \A j \in lows : i <= j
      b == CHOOSE i \in highs : \A j \in highs : i >= j
  IN [start |-> IF lows = {} THEN start ELSE start + (a - 1),
      size |-> IF highs = {} THEN size ELSE b - a + 1]

\* A variant of the tolerance test that compares the absolute change.
ToleranceMetAbs(old2, spread2, param) ==
  LET f == Sq(Num(param.n + param.d, param.d))
      g == Sq(Num(param.d - param.n, param.d))
  IN RLt(old2, RMul(f, spread2)) /\ RLt(RMul(g, spread2), old2)

\* (oldspread - spread)/spread < param, on the squares of the two spreads
\* (spread > 0, param > 0): oldspread < (1 + param)*spread.
ToleranceMet(old2, spread2, param) ==
  RLt(old2, RMul(Sq(Num(param.n + param.d, param.d)), spread2))

\* The locals of statistics_clip.  'nbs' is the dataset no_blank_sorted
\* returned (its whole array), 'own' says that it is the caller's dataset;
\* 'wstart' and 'wsize' are where nbs->array and nbs->size point, 'start'
\* and 'size' the variables of these names; 'spread2' and 'old2' are the
\* squares of 'spread' and 'oldspread'; 'mad' is the spread of MAD
\* clipping itself.
ClipLoc(pc, nbs, own, wstart, wsize, start, size, num, center, spread2, old2, mad) ==
  [pc |-> pc, nbs |-> nbs, own |-> own, wstart |-> wstart, wsize |-> wsize,
   start |-> start, size |-> size, num |-> num, center |-> center,
   spread2 |-> spread2, old2 |-> old2, mad |-> mad]

Idle == [pc |-> "idle"]

\* One pass of the body of the while loop of statistics_clip.
ClipRoundOf(l, sig, multip, param) ==
  LET type == l.nbs.type
      w == SubSeq(l.nbs.arr, l.start + 1, l.start + l.size)
      center == MedInSorted(type, w)
      mad == IF sig THEN NaN
             ELSE MadInSortedNoBlank(Data(type, w, l.nbs.flag), center)
      spread2 == IF sig THEN Std2(w) ELSE Sq(mad)
      stop == /\ spread2.n = 0 \/ (ByTolerance(param) /\ l.num > 0)
              /\ spread2.n = 0 \/ ToleranceMet(l.old2, spread2, param)
      c == ClipAll(w, l.nbs.flag.sorted_i, center,
                   RMul(Sq(multip), spread2), l.start, l.size)
  IN IF stop
     THEN ClipLoc("broke", l.nbs, l.own, l.start, l.size, l.start, l.size,
                  l.num, center, spread2,
                  IF spread2.n = 0 THEN spread2 ELSE l.old2, mad)
     ELSE ClipLoc("loop", l.nbs, l.own, l.start, l.size, c.start, c.size,
                  l.num + 1, center, spread2, spread2, mad)

\* statistics_clip_stats_extra on the window nbs points to.
ClipStatsExtra(w, type, oa, extras) ==
  LET imean == "mean" \in extras /\ ~IsNum(oa.mean)
      istd == "std" \in extras /\ ~IsNum(oa.std2)
      imad == "mad" \in extras /\ ~IsNum(oa.mad)
      d == Data(type, w, NoFlags)
  IN [oa EXCEPT
        !.mean = IF imean THEN Mean(w) ELSE @,
        !.std2 = IF istd THEN Std2(w) ELSE @,
        !.mad = IF imad
                THEN (IF Len(w) = 0 THEN NaN
                      ELSE MadInSortedNoBlank(d, MedianInSortedNoBlank(d)))
                ELSE @]

\* What statistics_clip writes after the switch, before the extra
\* statistics.
ClipWrite(l, sig, param) ==
  IF l.pc = "none" THEN ClipOutNaN(0)
  ELSE IF l.pc = "one"
  THEN ClipOut(Num(1, 1), Num(l.nbs.arr[1], 1),
               IF sig THEN Num(0, 1) ELSE NaN,
               IF sig THEN NaN ELSE Num(0, 1), NaN, NaN, 0)
  ELSE IF l.size = 0 \/ (ByTolerance(param) /\ l.num = MaxNum(param))
  THEN ClipOutNaN(l.num)
  ELSE ClipOut(Num(l.size, 1), l.center,
               IF sig THEN l.spread2 ELSE NaN,
               IF sig THEN NaN ELSE l.mad, NaN, Num(l.num, 1), l.num)

(***************************************************************************)
(* statistics_clip as one call (the outlier functions call it so).         *)
(***************************************************************************)
\* The locals of statistics_clip when it reaches its switch, on what
\* no_blank_sorted gave (r).
ClipFirstLoc(r) ==
  ClipLoc(IF Size(r.nbs) = 0 THEN "none"
          ELSE IF Size(r.nbs) = 1 THEN "one" ELSE "loop",
          r.nbs, r.borrowed, 0, Size(r.nbs), 0, Size(r.nbs), 0, NaN, NaN,
          NaN, NaN)

\* The while loop of statistics_clip, to its end.
RECURSIVE ClipLoop(_, _, _, _)
ClipLoop(l, sig, multip, param) ==
  IF l.pc = "loop" /\ l.num < MaxNum(param) /\ l.size # 0
  THEN ClipLoop(ClipRoundOf(l, sig, multip, param), sig, multip, param)
  ELSE l

\* The output array of statistics_clip for the locals the loop ended with.
ClipResult(l, sig, param, extras) ==
  ClipStatsExtra(SubSeq(l.nbs.arr, l.wstart + 1, l.wstart + l.wsize),
                 l.nbs.type, ClipWrite(l, sig, param), extras)

(***************************************************************************)
(* gal_statistics_outlier_bydistance.                                      *)
(***************************************************************************)
\* clipflags: the extra statistics the outlier functions ask of MAD
\* clipping.
OutlierClipFlags == {"std"}

OutlierNone == [st |-> "ok", val |-> NaN, idx |-> NoIndex]

\* OUTLIER_BYTYPE: the distance array at scan position i (0-based), filled
\* from the elements before i (forward) or after it; 'past' is what a read
\* beyond the end of the array finds.
OutlierDist(a, i, ws, fwd, past) ==
  [j \in 1..(ws - 1) |->
     IF fwd THEN a[i - ws + j + 1] - a[i - ws + j]
     ELSE ReadAt(a, i + ws - j + 3, past) - ReadAt(a, i + ws - j + 2, past)]

\* (arr[i]-arr[i-1]) - median > sigma*std, on the square of the STD.
OutlierExceeds(gap, median, std2, sigma) ==
  /\ IsNum(median)
  /\ IsNum(std2)
  /\ LET diff == RSub(Num(gap, 1), median)
     IN IF sigma.n >= 0
        THEN diff.n > 0 /\ RLt(RMul(Sq(sigma), std2), Sq(diff))
        ELSE diff.n > 0 \/ RLt(Sq(diff), RMul(Sq(sigma), std2))

\* The loop of OUTLIER_BYTYPE from position i on; 'flag' is dist->flag as
\* the calls of gal_statistics_clip_mad on 'dist' have left it.
RECURSIVE OutlierScan(_, _, _, _, _, _, _, _, _)
\* The test of position i on the output array (oa) of the MAD clipping.
OutlierTest(a, i, oa, flag, ws, fwd, sigma, multip, param, past) ==
  IF OutlierExceeds(a[i + 1] - a[i], oa.median, oa.std2, sigma)
  THEN [st |-> "ok", val |-> Num(a[i], 1), idx |-> i - 1]
  ELSE OutlierScan(a, IF fwd THEN i + 1 ELSE i - 1, flag, ws, fwd, sigma,
                   multip, param, past)

\* Position i once gal_statistics_no_blank_sorted(dist, 0) has run (r).
OutlierClipped(a, i, r, ws, fwd, sigma, multip, param, past) ==
  OutlierTest(a, i,
              ClipResult(ClipLoop(ClipFirstLoc(r), FALSE, multip, param),
                         FALSE, param, OutlierClipFlags),
              r.inp.flag, ws, fwd, sigma, multip, param, past)

OutlierScan(a, i, flag, ws, fwd, sigma, multip, param, past) ==
  IF ~(i < Len(a) /\ i # 0) THEN OutlierNone
  ELSE IF ~ClipParamsOk(multip, param)
  THEN [st |-> "abort", val |-> NaN, idx |-> NoIndex]
  ELSE OutlierClipped(a, i,
                      NoBlankSorted(Data("float64",
                                         OutlierDist(a, i, ws, fwd, past),
                                         flag), FALSE),
                      ws, fwd, sigma, multip, param, past)

\* gal_statistics_outlier_bydistance on what no_blank_sorted gave (r).
OutlierByDistanceOfView(r, ws, fwd, sigma, multip, param, past) ==
  [res |-> IF Size(r.nbs) = 0 \/ ws <= 2 THEN OutlierNone
           ELSE OutlierScan(r.nbs.arr, ws, NoFlags, ws, fwd, sigma, multip,
                            param, past),
   inp |-> r.inp]

\* gal_statistics_outlier_bydistance
OutlierByDistance(d, ws, fwd, sigma, multip, param, inplace, past) ==
  OutlierByDistanceOfView(NoBlankSorted(d, inplace), ws, fwd, sigma, multip,
                          param, past)

(***************************************************************************)
(* gal_statistics_outlier_flat_cfp.  The arguments that stay the same      *)
(* through the scan are one record c: numprev, thresh, numcontig, multip,  *)
(* param, and for an integer type 'junk', the positions whose test comes   *)
(* out true: OUTLIER_FLAT_CFP_BYTYPE writes the differences into the       *)
(* float64 array 'prev' through a pointer of the element type, so that     *)
(* MAD clipping reads values made of these bytes and of memory that was    *)
(* never written.                                                          *)
(***************************************************************************)
\* The locals of the scan: the position p-a, the array of 'prev', flatind,
\* counter, and the positions whose difference was found above the
\* threshold, in the order of the scan.
FlatLoc(k, prev, flatind, counter, flagged, st) ==
  [k |-> k, prev |-> prev, flatind |-> flatind, counter |-> counter,
   flagged |-> flagged, st |-> st]

\* The test of the difference 'diff' on the output array (oa) of the MAD
\* clipping: std > 1e-6 and (diff - median)/std > thresh.
FlatFlagged(diff, oa, c, k, isfloat) ==
  IF isfloat
  THEN /\ IsNum(oa.std2)
       /\ oa.std2.n > 0
       /\ OutlierExceeds(diff, oa.median, oa.std2, c.thresh)
  ELSE k \in c.junk

\* The counting of contiguous positions above the threshold at position
\* l.k; 'prev' is the array after the MAD clipping has sorted it in place.
FlatCount(l, hit, prev, diff, c) ==
  LET slot == ((l.k - 2) % c.numprev) + 1
      stored == [prev EXCEPT ![slot] = diff]
      seen == IF hit THEN Append(l.flagged, l.k) ELSE l.flagged
  IN IF ~hit THEN FlatLoc(l.k, stored, NoIndex, 0, seen, "scan")
     ELSE IF l.flatind = NoIndex
     THEN FlatLoc(l.k, stored, l.k, l.counter + 1, seen, "scan")
     ELSE IF l.flatind # l.k - l.counter
     THEN FlatLoc(l.k, stored, NoIndex, 0, seen, "scan")
     ELSE IF l.counter + 1 = c.numcontig
     THEN FlatLoc(l.k, prev, l.flatind, l.counter, seen, "break")
     ELSE FlatLoc(l.k, stored, l.flatind, l.counter + 1, seen, "scan")

\* The body of the do-while loop at position l.k, once
\* gal_statistics_no_blank_sorted(prev, 1) has run (r).
FlatClipped(a, l, r, diff, c, isfloat) ==
  FlatCount(l,
            FlatFlagged(diff,
                        ClipResult(ClipLoop(ClipFirstLoc(r), FALSE, c.multip,
                                            c.param),
                                   FALSE, c.param, OutlierClipFlags),
                        c, l.k, isfloat),
            r.inp.arr, diff, c)

\* The body of the do-while loop at position l.k for the difference 'diff'.
FlatBody(a, l, diff, c, isfloat) ==
  IF l.k - 2 < c.numprev
  THEN [l EXCEPT !.prev[l.k - 1] = diff]
  ELSE IF ~ClipParamsOk(c.multip, c.param) THEN [l EXCEPT !.st = "abort"]
  ELSE FlatClipped(a, l, NoBlankSorted(Data("float64", l.prev, NoFlags), TRUE),
                   diff, c, isfloat)

\* The do-while loop from the locals l on, the body at l.k still to run.
RECURSIVE FlatScan(_, _, _, _)
\* while(++p<pp) after the body has left the locals l.
FlatNext(a, l, c, isfloat) ==
  IF l.st = "scan" /\ l.k + 1 < Len(a) - 2
  THEN FlatScan(a, [l EXCEPT !.k = @ + 1], c, isfloat)
  ELSE l

FlatScan(a, l, c, isfloat) ==
  FlatNext(a,
           FlatBody(a, l, IF l.k + 3 <= Len(a) THEN a[l.k + 3] - a[l.k - 1]
                          ELSE 0, c, isfloat),
           c, isfloat)

\* What the function returns for the locals the loop ended with.
FlatResult(a, l, c) ==
  IF l.st = "abort"
  THEN [st |-> "abort", val |-> NaN, idx |-> NoIndex, flagged |-> <<>>]
  ELSE IF l.counter + 1 # c.numcontig \/ l.flatind = NoIndex
  THEN [st |-> "ok", val |-> NaN, idx |-> NoIndex, flagged |-> l.flagged]
  ELSE [st |-> "ok", val |-> Num(a[l.flatind + 1], 1), idx |-> l.flatind,
        flagged |-> l.flagged]

\* gal_statistics_outlier_flat_cfp on what no_blank_sorted gave (r).
OutlierFlatCfpOfView(r, c) ==
  [res |-> FlatResult(r.nbs.arr,
                      FlatScan(r.nbs.arr,
                               FlatLoc(2, [i \in 1..c.numprev |-> 0],
                                       NoIndex, 0, <<>>, "scan"),
                               c, IsFloat(r.nbs.type)),
                      c),
   inp |-> r.inp]

\* gal_statistics_outlier_flat_cfp
OutlierFlatCfp(d, c, inplace) ==
  IF c.thresh.n <= 0 \/ c.numprev = 0
  THEN [res |-> [st |-> "abort", val |-> NaN, idx |-> NoIndex,
                 flagged |-> <<>>],
        inp |-> d]
  ELSE OutlierFlatCfpOfView(NoBlankSorted(d, inplace), c)

(***************************************************************************)
(* The mode (gal_statistics_mode).  A size_t is kept as the integer of     *)
(* least magnitude congruent to it modulo 2^64, so that -1 is              *)
(* (size_t)(-1); SzLt is the order of size_t on these.                     *)
(***************************************************************************)
SzLt(a, b) == IF (a >= 0) = (b >= 0) THEN a < b ELSE a >= 0

\* The conversion of an int to the element type (an assignment to a
\* variable of the type): modulo 2^8 for the 8-bit types.
ToType(type, x) ==
  CASE type = "uint8" -> x % 256
    [] type = "int8" -> ((x + 128) % 256) - 128
    [] OTHER -> x

CeilDiv(n, d) == (n + d - 1) \div d

\* The float constants of the mode search, as the exact ratios they are.
ModeMinQ == [n |-> 5368709, d |-> 536870912]
ModeMaxQ == [n |-> 9227469, d |-> 16777216]
ModeSymLowQ == [n |-> 5368709, d |-> 536870912]
ModeGoldenRatio == [n |-> 13573053, d |-> 8388608]
ModeTwoTakeGR == [n |-> 6408393, d |-> 16777216]

\* p.tolerance = 0.01, kept in a float.
ModeTolerance == [n |-> 5368709, d |-> 536870912]

\* MODE_MIRROR_ABOVE
ModeMirrorAbove == -1

\* GAL_STATISTICS_MODE_GOOD_SYM
ModeGoodSym == [k |-> "num", n |-> 13421773, d |-> 67108864]

\* (size_t)(mirrordist*sqrt(m)) for mirrordist = md.n/md.d.
ErrorDiff(md, m) ==
  CHOOSE e \in 0..(m * md.n + 1) :
    /\ e * e * md.d * md.d <= md.n * md.n * m
    /\ (e + 1) * (e + 1) * md.d * md.d > md.n * md.n * m

\* The 'j' the inner loop of MIRR_MAX_DIFF and MODE_SYM ends with, for the
\* mirrored value mf and starting from prevj.
MirrJ(a, m, mf, prevj) ==
  LET size == Len(a)
      hits == {j \in 0..(size - m - 1) : j >= prevj /\ a[m + j + 1] > mf}
  IN IF ~SzLt(prevj, size - m) THEN prevj
     ELSE IF hits = {} THEN size - m
     ELSE LET j == CHOOSE h \in hits : \A g \in hits : h <= g
          IN IF a[m + j + 1] - mf < mf - a[m + j] THEN j ELSE j - 1

\* MIRR_MAX_DIFF: 'IT zf=a[m], mf=2*zf-a[m-i]', the mirrored value as the
\* variable of the element type holds it.
MirrValue(type, a, m, i) == ToType(type, 2 * a[m + 1] - a[m - i + 1])

\* The loop of mode_mirror_max_index_diff from 'i' on.
RECURSIVE MirrLoop(_, _, _, _, _, _, _)
MirrLoop(type, a, m, md, i, prevj, maxdiff) ==
  LET size == Len(a)
      numcheck == size \div 2
      interval == IF numcheck > 1000 THEN numcheck \div 1000 ELSE 1
  IN IF ~(i < numcheck /\ i <= m /\ m + i < size) THEN maxdiff
     ELSE LET mf == MirrValue(type, a, m, i)
              j == MirrJ(a, m, mf, prevj)
              absdiff == IF SzLt(j, i) THEN i - j ELSE j - i
          IN IF SzLt(j + ErrorDiff(md, m), i) THEN ModeMirrorAbove
             ELSE MirrLoop(type, a, m, md, i + interval, j,
                           IF SzLt(maxdiff, absdiff) THEN absdiff
                           ELSE maxdiff)

\* mode_mirror_max_index_diff(p, m)
ModeMirrorMaxIndexDiff(type, a, m, md) == MirrLoop(type, a, m, md, 1, 0, 0)

\* A variant that starts the search with the middle point on the lower end.
ModeFirstMidAtLow(lowi, highi) == lowi

\* The first middle point: (highi + GR*lowi)/(1 + GR) in float arithmetic,
\* truncated; 1 + GR rounds to 21961660/2^23.
ModeFirstMid(lowi, highi) ==
  (highi * ModeGoldenRatio.d + ModeGoldenRatio.n * lowi) \div 21961660

\* The locals of gal_statistics_mode and the fields of its
\* statistics_mode_params; 'di' and 'dd' are the probe of the last call of
\* mode_golden_section and its score, 'steps' counts the calls that went on.
ModeLoc(pc, nbs, own, lowi, midi, midd, highi, di, dd, steps, modeindex) ==
  [pc |-> pc, nbs |-> nbs, own |-> own, lowi |-> lowi, midi |-> midi,
   midd |-> midd, highi |-> highi, di |-> di, dd |-> dd, steps |-> steps,
   modeindex |-> modeindex]

\* A variant without the addition to the golden section search: the
\* standard rule is applied to every score.
ModeGoldenSectionStandard(l, md) ==
  LET a == l.nbs.arr
      type == l.nbs.type
      upper == l.highi - l.midi > l.midi - l.lowi
      di == IF upper
            THEN l.midi + (ModeTwoTakeGR.n * (l.highi - l.midi))
                            \div ModeTwoTakeGR.d
            ELSE (l.midi * ModeTwoTakeGR.d
                  - ModeTwoTakeGR.n * (l.midi - l.lowi)) \div ModeTwoTakeGR.d
      stop == \/ l.highi - l.lowi
                   < CeilDiv(ModeTolerance.n * (l.midi + di), ModeTolerance.d)
              \/ l.highi - l.lowi <= 3
      dd == ModeMirrorMaxIndexDiff(type, a, di, md)
      on == [l EXCEPT !.di = di, !.dd = dd, !.steps = @ + 1]
  IN IF stop
     THEN [l EXCEPT !.pc = "found", !.di = di,
                    !.modeindex = (l.highi + l.lowi) \div 2]
     ELSE IF SzLt(dd, l.midd)
     THEN IF upper THEN [on EXCEPT !.lowi = l.midi, !.midi = di, !.midd = dd]
          ELSE [on EXCEPT !.highi = l.midi, !.midi = di, !.midd = dd]
     ELSE IF upper THEN [on EXCEPT !.highi = di]
          ELSE [on EXCEPT !.lowi = di]

\* One call of mode_golden_section: it returns the mode index ("found") or
\* narrows the interval and calls itself.
ModeGoldenSection(l, md) ==
  LET a == l.nbs.arr
      type == l.nbs.type
      upper == l.highi - l.midi > l.midi - l.lowi
      di == IF upper
            THEN l.midi + (ModeTwoTakeGR.n * (l.highi - l.midi))
                            \div ModeTwoTakeGR.d
            ELSE (l.midi * ModeTwoTakeGR.d
                  - ModeTwoTakeGR.n * (l.midi - l.lowi)) \div ModeTwoTakeGR.d
      stop == \/ l.highi - l.lowi
                   < CeilDiv(ModeTolerance.n * (l.midi + di), ModeTolerance.d)
              \/ l.highi - l.lowi <= 3
      dd == ModeMirrorMaxIndexDiff(type, a, di, md)
      on == [l EXCEPT !.di = di, !.dd = dd, !.steps = @ + 1]
  IN IF stop
     THEN [l EXCEPT !.pc = "found", !.di = di,
                    !.modeindex = (l.highi + l.lowi) \div 2]
     ELSE IF dd = ModeMirrorAbove
     THEN IF l.midi < di THEN [on EXCEPT !.highi = di]
          ELSE [on EXCEPT !.highi = l.midi, !.midi = di, !.midd = dd]
     ELSE IF SzLt(dd, l.midd)
     THEN IF upper THEN [on EXCEPT !.lowi = l.midi, !.midi = di, !.midd = dd]
          ELSE [on EXCEPT !.highi = l.midi, !.midi = di, !.midd = dd]
     ELSE IF upper THEN [on EXCEPT !.highi = di]
          ELSE [on EXCEPT !.lowi = di]

\* The loop of MODE_SYM from 'i' on: 'bi', or 0 when the loop ends without
\* setting it.
RECURSIVE SymLoop(_, _, _, _, _, _, _)
SymLoop(type, a, m, errdiff, topi, i, prevj) ==
  IF ~(i < topi - m) THEN 0
  ELSE LET fi == ToType(type, 2 * a[m + 1] - a[m - i + 1])
           j == MirrJ(a, m, fi, prevj)
       IN IF SzLt(j + errdiff, i) \/ SzLt(i + errdiff, j) THEN m + i
          ELSE SymLoop(type, a, m, errdiff, topi, i + 1, j)

\* mode_symmetricity(p, m, b_val): the value returned and what b_val holds
\* (b_val is allocated cleared).
ModeSymmetricity(type, a, m, md) ==
  LET size == Len(a)
      topi == IF 2 * m > size - 1 THEN size - 1 ELSE 2 * m
      mf == a[m + 1]
      af == a[QuantileIndex(2 * m + 1, ModeSymLowQ.n, ModeSymLowQ.d) + 1]
      bi0 == SymLoop(type, a, m, ErrorDiff(md, m), topi, 1, 0)
      bf == a[(IF bi0 = 0 THEN topi ELSE bi0) + 1]
  IN IF mf <= af THEN [sym |-> Num(0, 1), b |-> 0]
     ELSE [sym |-> IF bf = af THEN Num(0, 1) ELSE Num(bf - mf, mf - af),
           b |-> bf]

\* The four elements of the output of gal_statistics_mode.
ModeOut(mode, quantile, sym, symval) ==
  [mode |-> mode, quantile |-> quantile, sym |-> sym, symval |-> symval]

ModeOutNaN == ModeOut(NaN, NaN, NaN, NaN)

\* A variant of the last part of gal_statistics_mode that, for a symmetricity
\* that is not good, leaves the mode and its quantile in the output.
ModeResultPartial(type, a, modeindex, md) ==
  LET s == ModeSymmetricity(type, a, modeindex, md)
      q == IF Len(a) = 1 THEN NaN ELSE Num(modeindex, Len(a) - 1)
  IN IF RLt(ModeGoodSym, s.sym)
     THEN ModeOut(Num(a[modeindex + 1], 1), q, s.sym, Num(s.b, 1))
     ELSE ModeOut(Num(a[modeindex + 1], 1), q, NaN, NaN)

\* The last part of gal_statistics_mode: the output for the mode index.
ModeResult(type, a, modeindex, md) ==
  LET s == ModeSymmetricity(type, a, modeindex, md)
      q == IF Len(a) = 1 THEN NaN ELSE Num(modeindex, Len(a) - 1)
  IN IF RLt(ModeGoodSym, s.sym)
     THEN ModeOut(Num(a[modeindex + 1], 1), q, s.sym, Num(s.b, 1))
     ELSE ModeOutNaN

(***************************************************************************)
(* The state machine: a caller holding one dataset and making one call to  *)
(* the library on it.  The dataset's flags are as gal_data_alloc left them *)
(* (nothing checked) or as earlier checks (gal_blank_present and           *)
(* gal_statistics_is_sorted with their update flag set) have cached them.  *)
(* A call that ends in error(EXIT_FAILURE, ...) ends the process: 'out.st' *)
(* is "abort".                                                             *)
(***************************************************************************)
\* The sequences over S of length at most n.
SeqsUpTo(S, n) == UNION {[1..k -> S] : k \in 0..n}

ElemVals(type) == DataVals(type) \cup {Blank(type)}

\* What a read past the end of an array may find.
GarbageVals(type) == ElemVals(type)

MaxOf(S) == CHOOSE m \in S : \A x \in S : m >= x
MinOf(S) == CHOOSE m \in S : \A x \in S : m <= x

\* Probe values for the quantile function: the data values and one
\* value beyond each end (none below 0 for an unsigned type).
ProbeVals(type) ==
  DataVals(type) \cup {MaxOf(DataVals(type)) + 1}
  \cup (IF type = "uint8" THEN {} ELSE {MinOf(DataVals(type)) - 1})

NoView == Data("uint8", <<>>, NoFlags)

Call(op, inplace, x, y, g, h) ==
  [op |-> op, inplace |-> inplace, x |-> x, y |-> y, g |-> g, h |-> h]

Out(st, val, idx, view, borrowed) ==
  [st |-> st, val |-> val, idx |-> idx, view |-> view, borrowed |-> borrowed]

NoCall == Call("init", FALSE, 0, 0, 0, 0)
NoOut == Out("ok", NaN, NoIndex, NoView, FALSE)

\* The caller has its dataset and has not called yet.
Fresh == call.op = "init"

\* The flags a dataset can carry: each of the two checks cached or not.
\* Sortedness is cached only for an array whose elements all compare (no
\* NaN): no order is defined on the others.
HasNaN(d) == \E i \in 1..Size(d) : IsNaN(d.type, d.arr[i])

CachedFlags(d) ==
  {IF cb THEN (IF cs THEN IsSortedUpdate(BlankPresentUpdate(d))
               ELSE BlankPresentUpdate(d))
   ELSE (IF cs THEN IsSortedUpdate(d) ELSE d) :
     cb \in BOOLEAN, cs \in IF HasNaN(d) THEN {FALSE} ELSE BOOLEAN}

InitData ==
  UNION {UNION {CachedFlags(Data(t, a, NoFlags)) :
                  a \in SeqsUpTo(ElemVals(t), MaxLen)} : t \in Types}


Init ==
  /\ input \in InitData
  /\ pre = input
  /\ call = NoCall
  /\ out = NoOut
  /\ loc = Idle

\* gal_statistics_is_sorted(input, updateflags)
CallIsSorted ==
  /\ Fresh
  /\ \E update \in BOOLEAN :
       /\ input' = IF update THEN IsSortedUpdate(input) ELSE input
       /\ call' = Call("is_sorted", update, 0, 0, 0, 0)
       /\ out' = Out(IsSortedValue(input), NaN, NoIndex, NoView, FALSE)
  /\ pre' = input
  /\ UNCHANGED loc

\* gal_statistics_no_blank_sorted(input, inplace)
CallNoBlankSorted ==
  /\ Fresh
  /\ \E inplace \in BOOLEAN :
       LET r == NoBlankSorted(input, inplace)
       IN /\ input' = r.inp
          /\ call' = Call("no_blank_sorted", inplace, 0, 0, 0, 0)
          /\ out' = Out("ok", NaN, NoIndex, r.nbs, r.borrowed)
  /\ pre' = input
  /\ UNCHANGED loc

\* gal_statistics_median(input, inplace)
CallMedian ==
  /\ Fresh
  /\ \E inplace \in BOOLEAN :
       LET r == Median(input, inplace)
       IN /\ input' = r.inp
          /\ call' = Call("median", inplace, 0, 0, 0, 0)
          /\ out' = Out("ok", r.val, NoIndex, NoView, FALSE)
  /\ pre' = input
  /\ UNCHANGED loc

\* gal_statistics_mad(input, inplace)
CallMad ==
  /\ Fresh
  /\ \E inplace \in BOOLEAN :
       LET r == Mad(input, inplace)
       IN /\ input' = r.inp
          /\ call' = Call("mad", inplace, 0, 0, 0, 0)
          /\ out' = Out("ok", r.val, NoIndex, NoView, FALSE)
  /\ pre' = input
  /\ UNCHANGED loc

\* gal_statistics_quantile(input, qn/QDen, inplace)
CallQuantile ==
  /\ Fresh
  /\ \E inplace \in BOOLEAN, qn \in (-1)..(QDen + 1) :
       LET r == Quantile(input, qn, QDen, inplace)
       IN /\ input' = r.inp
          /\ call' = Call("quantile", inplace, qn, 0, 0, 0)
          /\ out' = Out(r.st, r.val, NoIndex, NoView, FALSE)
  /\ pre' = input
  /\ UNCHANGED loc

\* Only a sorted array of one element is read past its end; what the read
\* finds is then an input of the call.
PastVals(d) ==
  IF Len(NonBlank(d.type, d.arr)) = 1 THEN GarbageVals(d.type) ELSE {0}

\* gal_statistics_quantile_function_index(input, v, inplace)
CallQuantileFunctionIndex ==
  /\ Fresh
  /\ \E inplace \in BOOLEAN, v \in ProbeVals(input.type),
        past \in PastVals(input) :
       LET r == QuantileFunctionIndex(input, v, inplace, past)
       IN /\ input' = r.inp
          /\ call' = Call("quantile_function_index", inplace, v, 0, past, 0)
          /\ out' = Out("ok", NaN, r.idx, NoView, FALSE)
  /\ pre' = input
  /\ UNCHANGED loc

\* gal_statistics_quantile_function(input, v, inplace)
CallQuantileFunction ==
  /\ Fresh
  /\ \E inplace \in BOOLEAN, v \in ProbeVals(input.type),
        past \in PastVals(input), past2 \in PastVals(input) :
       LET r == QuantileFunction(input, v, inplace, past, past2)
       IN /\ input' = r.inp
          /\ call' = Call("quantile_function", inplace, v, 0, past, past2)
          /\ out' = Out("ok", r.val, r.idx, NoView, FALSE)
  /\ pre' = input
  /\ UNCHANGED loc

\* The round trip: gal_statistics_quantile_function on the value that
\* gal_statistics_quantile has just returned for the same dataset.
CallQuantileFunctionOfQuantile ==
  /\ call.op = "quantile"
  /\ out.st = "ok"
  /\ IsNum(out.val)
  /\ ~IsFloat(input.type) => out.val.n # Blank(input.type)
  /\ \E past \in PastVals(input), past2 \in PastVals(input) :
       LET r == QuantileFunction(input, out.val.n, call.inplace, past, past2)
       IN /\ input' = r.inp
          /\ call' = Call("round_trip", call.inplace, call.x, out.val.n,
                          past, past2)
          /\ out' = Out("ok", r.val, r.idx, NoView, FALSE)
  /\ pre' = pre
  /\ UNCHANGED loc

(***************************************************************************)
(* gal_statistics_quantile_index as a function of its two arguments.       *)
(***************************************************************************)
InitQI ==
  /\ input = Data("uint8", <<>>, NoFlags)
  /\ pre = input
  /\ \E size \in 0..MaxSize, qn \in (-1)..(QDen + 1) :
       call = Call("args", FALSE, size, qn, 0, 0)
  /\ out = NoOut
  /\ loc = Idle

ApplyQuantileIndex ==
  /\ call.op = "args"
  /\ LET r == QuantileIndexCall(call.x, call.y, QDen)
     IN out' = Out(r.st, NaN, r.idx, NoView, FALSE)
  /\ call' = [call EXCEPT !.op = "quantile_index"]
  /\ UNCHANGED <<input, pre, loc>>

NextQI == ApplyQuantileIndex

SpecQI == InitQI /\ [][NextQI]_vars


(***************************************************************************)
(* Clipping, one step of statistics_clip at a time: the part before the    *)
(* loop, one pass of the loop, the part after it.  The datasets are sorted *)
(* arrays, increasing or decreasing.                                       *)
(***************************************************************************)
ClipTypes == {"int8", "float64"}

ClipVals(type) ==
  IF type = "int8" THEN (-1)..(ClipMaxVal - 1) ELSE 0..ClipMaxVal

\* The non-decreasing sequences over lo..hi of length at most n.
RECURSIVE SortedUpTo(_, _, _)
SortedUpTo(lo, hi, n) ==
  IF n = 0 THEN {<<>>}
  ELSE {<<>>} \cup UNION {{<<x>> \o t : t \in SortedUpTo(x, hi, n - 1)} :
                            x \in lo..hi}

Reverse(a) == [i \in 1..Len(a) |-> a[Len(a) + 1 - i]]

ClipData ==
  UNION {UNION {{Data(t, a, NoFlags), Data(t, Reverse(a), NoFlags)} :
                  a \in SortedUpTo(MinOf(ClipVals(t)), MaxOf(ClipVals(t)),
                                   ClipLen)} : t \in ClipTypes}

ClipMultips == {Num(1, 1), Num(3, 1)}
ClipParams == {Num(1, 1), Num(2, 1), Num(1, 10)}
ExtraStats == {{}, {"mean", "std", "mad"}}

InitClip ==
  /\ input \in ClipData
  /\ pre = input
  /\ call = NoCall
  /\ out = NoOut
  /\ loc = Idle

IsSigma == call.op = "clip_sigma"

\* statistics_clip up to its switch on the number of elements.
ClipStart ==
  /\ Fresh
  /\ \E sig \in BOOLEAN, multip \in ClipMultips, param \in ClipParams,
        inplace \in BOOLEAN :
       LET r == NoBlankSorted(input, inplace)
           n == Size(r.nbs)
           pc == IF ~ClipParamsOk(multip, param) THEN "done"
                 ELSE IF n = 0 THEN "none"
                 ELSE IF n = 1 THEN "one" ELSE "loop"
       IN /\ input' = r.inp
          /\ call' = Call(IF sig THEN "clip_sigma" ELSE "clip_mad", inplace,
                          multip, param, {}, 0)
          /\ out' = IF pc = "done"
                    THEN Out("abort", NaN, NoIndex, NoView, FALSE)
                    ELSE NoOut
          /\ loc' = ClipLoc(pc, r.nbs, r.borrowed, 0, n, 0, n, 0, NaN, NaN,
                            NaN, NaN)
  /\ pre' = input

ClipLoopGoesOn == loc.num < MaxNum(call.y) /\ loc.size # 0

\* One pass of the while loop.
ClipRound ==
  /\ loc.pc = "loop"
  /\ ClipLoopGoesOn
  /\ loc' = ClipRoundOf(loc, IsSigma, call.x, call.y)
  /\ UNCHANGED <<input, pre, call, out>>

\* statistics_clip after the switch: the output, the extra statistics (the
\* argument 'extrastats' is first read here, and drawn here), the clean-up.
ClipFinish ==
  /\ \/ loc.pc \in {"none", "one", "broke"}
     \/ loc.pc = "loop" /\ ~ClipLoopGoesOn
  /\ \E extras \in ExtraStats :
       LET oa == ClipWrite(loc, IsSigma, call.y)
           w == SubSeq(loc.nbs.arr, loc.wstart + 1, loc.wstart + loc.wsize)
       IN /\ out' = Out("ok",
                        IF extras = {} THEN oa
                        ELSE ClipStatsExtra(w, loc.nbs.type, oa, extras),
                        NoIndex, NoView, FALSE)
          /\ call' = [call EXCEPT !.g = extras]
  /\ input' = IF loc.own
              THEN [loc.nbs EXCEPT !.arr = SubSeq(@, 1, loc.wsize)]
              ELSE input
  /\ loc' = [loc EXCEPT !.pc = "done"]
  /\ pre' = pre

NextClip ==
  \/ ClipStart
  \/ ClipRound
  \/ ClipFinish

SpecClip == InitClip /\ [][NextClip]_vars

(***************************************************************************)
(* The mode, one step of gal_statistics_mode at a time: the part before    *)
(* the search, one call of mode_golden_section, the part after the search. *)
(* The datasets are sorted arrays, increasing or decreasing, longer ones  *)
(* of three values, and the small datasets of every order.                 *)
(***************************************************************************)
ModeTypes == {"uint8", "float64"}

ModeData ==
  UNION {UNION {{Data(t, a, NoFlags), Data(t, Reverse(a), NoFlags)} :
                  a \in SortedUpTo(0, ModeMaxVal, ModeLen)} : t \in ModeTypes}

\* Longer sorted arrays, of the three largest values: on them the search
\* narrows its interval several times, on either side of the middle point.
ModeLongData ==
  UNION {UNION {{Data(t, a, NoFlags), Data(t, Reverse(a), NoFlags)} :
                  a \in {s \in SortedUpTo(ModeMaxVal - 2, ModeMaxVal,
                                          ModeLongLen) : Len(s) > ModeLen}} :
           t \in ModeTypes}

\* Increasing uint8 arrays of the values 0, 100 and 200, whose mirrored
\* values go beyond the largest value of the type.
ModeWideData ==
  {Data("uint8", [i \in 1..Len(a) |-> 100 * a[i]], NoFlags) :
     a \in SortedUpTo(0, 2, ModeLen)}

\* The values of 'mirrordist': one that is not acceptable and two that are.
ModeMirrorDists == {Num(0, 1), Num(1, 2), Num(3, 2)}

InitMode ==
  /\ input \in ModeData \cup ModeLongData \cup ModeWideData \cup InitData
  /\ pre = input
  /\ call = NoCall
  /\ out = NoOut
  /\ loc = Idle

\* gal_statistics_mode up to its call of mode_golden_section.
ModeStart ==
  /\ Fresh
  /\ \E md \in ModeMirrorDists, inplace \in BOOLEAN :
       LET r == NoBlankSorted(input, inplace)
           a == r.nbs.arr
           size == Len(a)
           lowi == QuantileIndex(size, ModeMinQ.n, ModeMinQ.d)
           highi == QuantileIndex(size, ModeMaxQ.n, ModeMaxQ.d)
           midi == ModeFirstMid(lowi, highi)
           midd == ModeMirrorMaxIndexDiff(r.nbs.type, a, midi, md)
       IN /\ call' = Call("mode", inplace, md, 0, 0, 0)
          /\ IF md.n <= 0
             THEN /\ input' = input
                  /\ out' = Out("abort", NaN, NoIndex, NoView, FALSE)
                  /\ loc' = ModeLoc("done", input, FALSE, 0, 0, 0, 0, 0, 0,
                                    0, 0)
             ELSE IF size = 0
             THEN /\ input' = r.inp
                  /\ out' = Out("ok", ModeOutNaN, NoIndex, NoView, FALSE)
                  /\ loc' = ModeLoc("done", r.nbs, r.borrowed, 0, 0, 0, 0, 0,
                                    0, 0, 0)
             ELSE /\ input' = r.inp
                  /\ out' = NoOut
                  /\ loc' = ModeLoc("search", r.nbs, r.borrowed, lowi, midi,
                                    midd, highi, 0, 0, 0, 0)
  /\ pre' = input

\* One call of mode_golden_section.
ModeStep ==
  /\ loc.pc = "search"
  /\ loc' = ModeGoldenSection(loc, call.x)
  /\ UNCHANGED <<input, pre, call, out>>

\* gal_statistics_mode after the search: the symmetricity and the output.
ModeFinish ==
  /\ loc.pc = "found"
  /\ out' = Out("ok",
                ModeResult(loc.nbs.type, loc.nbs.arr, loc.modeindex, call.x),
                loc.modeindex, NoView, FALSE)
  /\ loc' = [loc EXCEPT !.pc = "done"]
  /\ UNCHANGED <<input, pre, call>>

NextMode ==
  \/ ModeStart
  \/ ModeStep
  \/ ModeFinish

SpecMode == InitMode /\ [][NextMode]_vars

(***************************************************************************)
(* The outlier functions, each as one call.  The datasets are sorted       *)
(* arrays, increasing or decreasing, the arrays of five elements that are  *)
(* sorted but for their smallest element, which comes last, and the small  *)
(* datasets of every order.                                                *)
(***************************************************************************)
OutlierTypes == {"uint8", "float64"}

OutlierData ==
  UNION {UNION {{Data(t, a, NoFlags), Data(t, Reverse(a), NoFlags)}
                \cup (IF Len(a) = 5
                      THEN {Data(t, Tail(a) \o <<Head(a)>>, NoFlags)}
                      ELSE {}) :
                  a \in SortedUpTo(0, OutlierMaxVal, OutlierLen)} :
           t \in OutlierTypes}

\* The float64 arrays of one more element, the shortest on which the scan
\* of outlier_flat_cfp computes two baselines from a buffer of three
\* differences.
FlatLongData ==
  UNION {{Data("float64", a, NoFlags), Data("float64", Reverse(a), NoFlags)} :
           a \in {s \in SortedUpTo(0, OutlierMaxVal, OutlierLen + 1) :
                    Len(s) = OutlierLen + 1}}

\* window_size
OutlierWindows == {2, 4}

\* sigma: one value that is not positive and one that is.
OutlierSigmas == {Num(0, 1), Num(1, 1)}

\* sigclip_multip and sigclip_param: a pair that statistics_clip_prepare
\* accepts and one that it does not.
OutlierClipArgs == {<<Num(3, 1), Num(1, 10)>>, <<Num(0, 1), Num(1, 1)>>}

InitOutlier ==
  /\ input \in OutlierData \cup FlatLongData \cup InitData
  /\ pre = input
  /\ call = NoCall
  /\ out = NoOut
  /\ loc = Idle

\* The backward scan reads beyond the end of the array.
OutlierPastVals(fwd) == IF fwd THEN {0} ELSE {0, OutlierMaxVal + 1}

\* gal_statistics_outlier_bydistance(pos1_neg0, input, window_size, sigma,
\* sigclip_multip, sigclip_param, inplace, quiet)
CallOutlierByDistance ==
  /\ Fresh
  /\ \E fwd \in BOOLEAN, ws \in OutlierWindows, sigma \in OutlierSigmas,
        args \in OutlierClipArgs, inplace \in BOOLEAN :
       \E past \in OutlierPastVals(fwd) :
         LET r == OutlierByDistance(input, ws, fwd, sigma, args[1], args[2],
                                    inplace, past)
         IN /\ input' = r.inp
            /\ call' = Call("outlier_bydistance", inplace, ws, sigma, past,
                            [fwd |-> fwd, multip |-> args[1],
                             param |-> args[2]])
            /\ out' = Out(r.res.st, r.res.val, r.res.idx, NoView, FALSE)
  /\ pre' = input
  /\ UNCHANGED loc

\* numprev, thresh and numcontig: a zero numprev and a zero thresh are not
\* accepted.
FlatNumPrevs == {0, 2, 3}
FlatThreshs == {Num(0, 1), Num(1, 2)}
FlatNumContigs == {1, 2, 3}

\* The positions of an array of an integer type at which the test can come
\* out true.
FlatJunks(d, numprev) ==
  IF IsFloat(d.type) \/ numprev = 0 THEN {{}}
  ELSE SUBSET ((numprev + 2)..(Size(d) - 3))

\* gal_statistics_outlier_flat_cfp(input, numprev, sigclip_multip,
\* sigclip_param, thresh, numcontig, inplace, quiet, index)
CallOutlierFlatCfp ==
  /\ Fresh
  /\ \E numprev \in FlatNumPrevs, thresh \in FlatThreshs,
        numcontig \in FlatNumContigs, args \in OutlierClipArgs,
        inplace \in BOOLEAN :
       \E junk \in FlatJunks(input, numprev) :
         LET c == [numprev |-> numprev, thresh |-> thresh,
                   numcontig |-> numcontig, multip |-> args[1],
                   param |-> args[2], junk |-> junk]
             r == OutlierFlatCfp(input, c, inplace)
         IN /\ input' = r.inp
            /\ call' = Call("outlier_flat_cfp", inplace, numprev, thresh,
                            r.res.flagged, c)
            /\ out' = Out(r.res.st, r.res.val, r.res.idx, NoView, FALSE)
  /\ pre' = input
  /\ UNCHANGED loc

NextOutlier ==
  \/ CallOutlierByDistance
  \/ CallOutlierFlatCfp

SpecOutlier == InitOutlier /\ [][NextOutlier]_vars

(***************************************************************************)
(* Regular bins, histogram and cumulative frequency plot.  Bin centres,    *)
(* counts and fractions are exact rationals (or NaN): the rounding of the  *)
(* double and float arithmetic is not modelled.  A Bins value is           *)
(* [status, arr]; the status "null" is the NULL pointer.                   *)
(***************************************************************************)
BinsLen == 2
MaxBins == 3

\* Double arithmetic on results: anything with a NaN is a NaN, 0/0 is a NaN.
FAdd(a, b) == IF IsNum(a) /\ IsNum(b) THEN RSub(a, Num(-b.n, b.d)) ELSE NaN
FSub(a, b) == IF IsNum(a) /\ IsNum(b) THEN RSub(a, b) ELSE NaN
FMul(a, b) == IF IsNum(a) /\ IsNum(b) THEN RMul(a, b) ELSE NaN
FDiv(a, b) ==
  IF ~(IsNum(a) /\ IsNum(b)) THEN NaN
  ELSE IF b.n = 0 THEN (IF a.n = 0 THEN NaN ELSE IF a.n > 0 THEN PInf ELSE NInf)
  ELSE IF b.n > 0 THEN Num(a.n * b.d, a.d * b.n)
  ELSE Num(-(a.n * b.d), a.d * (-b.n))
FLt(a, b) == IsNum(a) /\ IsNum(b) /\ RLt(a, b)
FLe(a, b) == IsNum(a) /\ IsNum(b) /\ ~RLt(b, a)

\* gal_statistics_minimum and gal_statistics_maximum, converted to double:
\* the blank elements are skipped, and the blank that comes out when none
\* is left converts to NaN.
Minimum(d) ==
  IF NonBlank(d.type, d.arr) = <<>> THEN NaN
  ELSE Num(MinOf({d.arr[i] : i \in {j \in 1..Size(d) : d.arr[j] # Blank(d.type)}}), 1)
Maximum(d) ==
  IF NonBlank(d.type, d.arr) = <<>> THEN NaN
  ELSE Num(MaxOf({d.arr[i] : i \in {j \in 1..Size(d) : d.arr[j] # Blank(d.type)}}), 1)

Bins(status, arr) == [status |-> status, arr |-> arr]
NoBins == Bins("null", <<>>)

\* The lower boundary of bin i (1-based): b[i]-hbw.
BinLow(b, hbw, i) == FSub(b[i], hbw)

\* The bin the loop over the first numbins-1 bins breaks at (1-based), or
\* numbins when it runs to its end.
BinOfStart(b, hbw, onebinstart) ==
  LET hit == {i \in 1..(Len(b) - 1) :
                /\ FLt(BinLow(b, hbw, i), onebinstart)
                /\ FLt(onebinstart, BinLow(b, hbw, i + 1))}
  IN IF hit = {} THEN Len(b) ELSE MinOf(hit)

\* The shift to 'onebinstart' of the centres b.
BinsShifted(b, hbw, onebinstart, i) ==
  IF ~IsNum(onebinstart) \/ i = Len(b) THEN b
  ELSE [k \in 1..Len(b) |->
          FAdd(b[k], FSub(onebinstart, BinLow(b, hbw, i)))]

\* The centres for the range [min, max]: b[i]=min+i*binwidth+hbw.
BinsOfRange(min, binwidth, hbw, numbins, onebinstart) ==
  LET b == [k \in 1..numbins |->
              FAdd(FAdd(min, FMul(Num(k - 1, 1), binwidth)), hbw)]
  IN Bins("regular",
          BinsShifted(b, hbw, onebinstart, BinOfStart(b, hbw, onebinstart)))

BinsOfMinMax(min, max, numbins, onebinstart) ==
  BinsOfRange(min, FDiv(FSub(max, min), Num(numbins, 1)),
              FDiv(FSub(max, min), Num(2 * numbins, 1)), numbins, onebinstart)

\* gal_statistics_regular_bins; 'range' is <<>> (no range) or <<min, max>>,
\* each a value or NaN; 'onebinstart' is a value or NaN.
RegularBins(d, range, numbins, onebinstart) ==
  IF numbins = 0 THEN [st |-> "abort", bins |-> NoBins]
  ELSE IF Size(d) = 0 THEN [st |-> "ok", bins |-> NoBins]
  ELSE [st |-> "ok",
        bins |-> BinsOfMinMax(
                   IF range # <<>> /\ IsNum(range[1]) THEN range[1]
                   ELSE Minimum(d),
                   IF range # <<>> /\ IsNum(range[2]) THEN range[2]
                   ELSE Maximum(d),
                   numbins, onebinstart)]

\* The floor of a non-negative finite result.
Floor(x) == x.n \div x.d

\* HISTOGRAM_TYPESET: the bin one element is counted in, 0 when it is out
\* of the range.  An element is compared as a number, blank or not; a NaN
\* compares false.  The quotient is converted to size_t: the conversion of a
\* NaN (a zero binwidth) or of a negative or infinite value is undefined,
\* and gives the index 'wild'.  An index past the last bin is NoIndex.
HistBin(type, x, min, max, binwidth, size, wild) ==
  IF IsNaN(type, x) \/ ~(FLe(min, Num(x, 1)) /\ FLe(Num(x, 1), max)) THEN 0
  ELSE LET q == FDiv(FSub(Num(x, 1), min), binwidth)
           h_i == IF IsNum(q) /\ q.n >= 0 THEN Floor(q) ELSE wild
       IN IF h_i = NoIndex \/ h_i > size THEN NoIndex
          ELSE IF h_i = size THEN size ELSE h_i + 1

\* The counts: hb[k] is the bin of element k (HistBin).
HistCounts(hb, size) ==
  [b \in 1..size |-> Cardinality({k \in 1..Len(hb) : hb[k] = b})]

\* The division of every count by 'ref', in float.
HistDivide(h, ref) == [b \in 1..Len(h) |-> FDiv(Num(h[b], 1), Num(ref, 1))]

Hist(st, type, arr) == [st |-> st, type |-> type, arr |-> arr]

\* The histogram from the counts h: as they are, normalized, or with a
\* maximum of one.
HistOfCounts(h, normalize, maxone) ==
  IF normalize THEN Hist("ok", "float32", HistDivide(h, SumSeq(h)))
  ELSE IF maxone
  THEN Hist("ok", "float32", HistDivide(h, MaxOf({h[b] : b \in 1..Len(h)})))
  ELSE Hist("ok", "size_t", [b \in 1..Len(h) |-> Num(h[b], 1)])

HistOfBins(hb, size, normalize, maxone) ==
  IF \E k \in 1..Len(hb) : hb[k] = NoIndex THEN Hist("ub", "size_t", <<>>)
  ELSE HistOfCounts(HistCounts(hb, size), normalize, maxone)

\* The range of the bins: binwidth=d[1]-d[0], min=d[0]-binwidth/2,
\* max=d[size-1]+binwidth/2.
HistRange(b, binwidth) ==
  [binwidth |-> binwidth,
   min |-> FSub(b[1], FDiv(binwidth, Num(2, 1))),
   max |-> FAdd(b[Len(b)], FDiv(binwidth, Num(2, 1)))]

HistOfRange(d, r, size, normalize, maxone, wild) ==
  HistOfBins([k \in 1..Size(d) |->
                HistBin(d.type, d.arr[k], r.min, r.max, r.binwidth, size, wild)],
             size, normalize, maxone)

\* A variant of gal_statistics_histogram that accepts bins of one centre
\* and counts every element in the one bin.
HistogramOneBin(d, bins, normalize, maxone, wild) ==
  IF \/ bins.status # "regular"
     \/ Size(d) = 0
     \/ (normalize /\ maxone)
  THEN Hist("abort", "size_t", <<>>)
  ELSE IF Len(bins.arr) = 1
  THEN HistOfCounts(<<Size(d)>>, normalize, maxone)
  ELSE HistOfRange(d, HistRange(bins.arr, FSub(bins.arr[2], bins.arr[1])),
                   Len(bins.arr), normalize, maxone, wild)

\* gal_statistics_histogram
Histogram(d, bins, normalize, maxone, wild) ==
  IF \/ bins.status = "null"
     \/ Len(bins.arr) = 1
     \/ bins.status # "regular"
     \/ Size(d) = 0
     \/ (normalize /\ maxone)
  THEN Hist("abort", "size_t", <<>>)
  ELSE HistOfRange(d, HistRange(bins.arr, FSub(bins.arr[2], bins.arr[1])),
                   Len(bins.arr), normalize, maxone, wild)

\* The sum of results, in float.
RECURSIVE FSum(_)
FSum(s) == IF s = <<>> THEN Num(0, 1) ELSE FAdd(Head(s), FSum(Tail(s)))

\* The running sum of the histogram h, divided by the total of h when the
\* plot of a counting histogram is to be normalized.
CfpOfHist(h, normalize) ==
  IF h.st # "ok" THEN h
  ELSE IF normalize /\ h.type = "size_t"
  THEN Hist("ok", "float32",
            [b \in 1..Len(h.arr) |->
               FDiv(FSum(SubSeq(h.arr, 1, b)), FSum(h.arr))])
  ELSE Hist("ok", h.type, [b \in 1..Len(h.arr) |-> FSum(SubSeq(h.arr, 1, b))])

\* gal_statistics_cfp; 'next' is the histogram that comes with the bins
\* (bins->next), of status "null" when there is none.
Cfp(d, bins, normalize, next, wild) ==
  IF bins.status # "regular" \/ Size(d) = 0 THEN Hist("abort", "size_t", <<>>)
  ELSE IF next.st = "null"
          \/ (next.type = "float32" /\ FSum(next.arr) # Num(1, 1))
  THEN CfpOfHist(Histogram(d, bins, FALSE, FALSE, wild), normalize)
  ELSE CfpOfHist(next, normalize)

(***************************************************************************)
(* The bins of a dataset, then its histogram or its cumulative frequency   *)
(* plot, and the plot from the histogram that comes with the bins.  'loc'  *)
(* holds the bins and the histogram the caller has.                        *)
(***************************************************************************)
BinTypes == {"uint8", "float64"}

BinData ==
  UNION {{Data(t, a, NoFlags) : a \in SeqsUpTo(ElemVals(t), BinsLen)} :
           t \in BinTypes}

\* No range, or a minimum and a maximum, each given or left to the data.
BinRanges ==
  {<<>>, <<NaN, NaN>>, <<Num(0, 1), NaN>>, <<NaN, Num(MaxVal, 1)>>,
   <<Num(0, 1), Num(MaxVal, 1)>>, <<Num(0, 1), Num(1, 1)>>}

BinStarts == {NaN, Num(1, 4), Num(3, 4), Num(3, 2)}

NoHist == Hist("null", "size_t", <<>>)

BinsLoc(pc, bins, hist) == [pc |-> pc, bins |-> bins, hist |-> hist]

InitBins ==
  /\ input \in BinData
  /\ pre = input
  /\ call = NoCall
  /\ out = NoOut
  /\ loc = Idle

CallRegularBins ==
  /\ Fresh
  /\ \E range \in BinRanges, numbins \in 0..MaxBins, onebinstart \in BinStarts :
       LET r == RegularBins(input, range, numbins, onebinstart)
       IN /\ call' = Call("regular_bins", FALSE, numbins, onebinstart, range, 0)
          /\ out' = Out(r.st, NaN, NoIndex, NoView, FALSE)
          /\ loc' = BinsLoc("bins", r.bins, NoHist)
  /\ pre' = input
  /\ UNCHANGED input

\* The bins a caller passes on: the ones regular_bins returned, or bins
\* with the same centres that are not tagged regular; bins made for another
\* dataset when regular_bins returned none.
BinsGiven(bins) ==
  IF bins.status = "null"
  THEN {Bins("regular", <<Num(1, 2), Num(3, 2)>>),
        Bins("irregular", <<Num(1, 2), Num(3, 2)>>)}
  ELSE {bins, Bins("irregular", bins.arr)}

\* What the conversion of a NaN to size_t can give, where it happens (bins
\* of no width): an index in the histogram or one far out of it.
WildIdx(bins) ==
  IF Len(bins.arr) > 1 /\ bins.arr[1] = bins.arr[2] /\ IsNum(bins.arr[1])
  THEN {0, NoIndex}
  ELSE {0}

CallHistogram ==
  /\ call.op = "regular_bins"
  /\ out.st = "ok"
  /\ \E bins \in BinsGiven(loc.bins), normalize \in BOOLEAN, maxone \in BOOLEAN :
       \E wild \in WildIdx(bins) :
         LET h == Histogram(input, bins, normalize, maxone, wild)
         IN /\ call' = Call("histogram", FALSE, normalize, maxone, wild, 0)
            /\ out' = Out(h.st, NaN, NoIndex, NoView, FALSE)
            /\ loc' = BinsLoc("hist", bins, h)
  /\ pre' = input
  /\ UNCHANGED input

CallCfp ==
  /\ call.op \in {"regular_bins", "histogram"}
  /\ out.st = "ok"
  /\ \E bins \in IF call.op = "histogram" THEN {loc.bins} ELSE BinsGiven(loc.bins),
        normalize \in BOOLEAN :
       \E wild \in WildIdx(bins) :
         LET h == Cfp(input, bins, normalize, loc.hist, wild)
         IN /\ call' = Call("cfp", FALSE, normalize, loc.hist, wild, 0)
            /\ out' = Out(h.st, NaN, NoIndex, NoView, FALSE)
            /\ loc' = BinsLoc("cfp", bins, h)
  /\ pre' = input
  /\ UNCHANGED input

NextBins ==
  \/ CallRegularBins
  \/ CallHistogram
  \/ CallCfp

SpecBins == InitBins /\ [][NextBins]_vars

(***************************************************************************)
(* The two functions that take a quantile: gal_statistics_quantile_index   *)
(* on a size, gal_statistics_quantile on a small dataset of any order.     *)
(***************************************************************************)
InitQ ==
  \/ InitQI
  \/ Init

NextQ ==
  \/ ApplyQuantileIndex
  \/ CallQuantile

SpecQ == InitQ /\ [][NextQ]_vars

(***************************************************************************)
(* Every operation, on the small datasets of every order.                  *)
(***************************************************************************)
\* The mean and the standard deviation take no 'inplace' and read the
\* dataset as it is.  'loc' holds the second output of mean_std.
CallMean ==
  /\ Fresh
  /\ call' = Call("mean", FALSE, 0, 0, 0, 0)
  /\ out' = Out("ok", MeanOfData(input), NoIndex, NoView, FALSE)
  /\ pre' = input
  /\ UNCHANGED <<input, loc>>

CallStd ==
  /\ Fresh
  /\ call' = Call("std", FALSE, 0, 0, 0, 0)
  /\ out' = Out("ok", StdOfData(input), NoIndex, NoView, FALSE)
  /\ pre' = input
  /\ UNCHANGED <<input, loc>>

CallMeanStd ==
  /\ Fresh
  /\ call' = Call("mean_std", FALSE, 0, 0, 0, 0)
  /\ out' = Out("ok", MeanStd(input).mean, NoIndex, NoView, FALSE)
  /\ loc' = [pc |-> "idle", std2 |-> MeanStd(input).std2]
  /\ pre' = input
  /\ UNCHANGED input

Next ==
  \/ CallIsSorted
  \/ CallNoBlankSorted
  \/ CallMedian
  \/ CallMad
  \/ CallQuantile
  \/ CallQuantileFunctionIndex
  \/ CallQuantileFunction
  \/ CallQuantileFunctionOfQuantile
  \/ CallMean
  \/ CallStd
  \/ CallMeanStd
  \/ ClipStart
  \/ ClipRound
  \/ ClipFinish
  \/ ModeStart
  \/ ModeStep
  \/ ModeFinish

Spec == Init /\ [][Next]_vars

(***************************************************************************)
(* Properties.  They speak of the caller's dataset before the call ('pre') *)
(* and of what the call returned, in terms that do not use the operators   *)
(* above: the non-blank elements by position, order statistics by counting.*)
(***************************************************************************)
\* The positions of the non-blank elements of a dataset.
Kept(d) == {i \in 1..Size(d) : d.arr[i] # Blank(d.type)}

NKept(d) == Cardinality(Kept(d))

\* How many times x occurs in a sequence.
Count(arr, x) == Cardinality({i \in 1..Len(arr) : arr[i] = x})

\* The k-th smallest (k = 1 for the minimum) non-blank element.
KthSmallest(d, k) ==
  CHOOSE x \in {d.arr[i] : i \in Kept(d)} :
    /\ Cardinality({i \in Kept(d) : d.arr[i] < x}) < k
    /\ k <= Cardinality({i \in Kept(d) : d.arr[i] <= x})

NonDecreasing(arr) == \A i \in 1..(Len(arr) - 1) : arr[i] <= arr[i + 1]
NonIncreasing(arr) == \A i \in 1..(Len(arr) - 1) : arr[i] >= arr[i + 1]

\* Cached flags say nothing false about the array.
FlagsAccurate(d) ==
  /\ d.flag.blank_ch /\ Size(d) > 0 =>
       (d.flag.hasblank <=> Kept(d) # 1..Size(d))
  /\ d.flag.sort_ch =>
       /\ ~(d.flag.sorted_i /\ d.flag.sorted_d)
       /\ d.flag.sorted_i => NonDecreasing(d.arr)
       /\ d.flag.sorted_d => NonIncreasing(d.arr)

\* The two middle elements of an even-sized sample: their sum.
MiddleSum(d) ==
  KthSmallest(d, NKept(d) \div 2) + KthSmallest(d, (NKept(d) \div 2) + 1)

MedianCalled == call.op = "median" /\ NKept(pre) >= 1

\* C1 as the specification states it: the median of n >= 1 non-blank
\* elements of any type is the middle element for odd n and the arithmetic
\* mean of the two middle elements, as a floating-point value, for even n
\* (2.5 for [1,2,3,4]).
C1_MedianIsMeanOfMiddles ==
  MedianCalled =>
    out.val = IF NKept(pre) % 2 = 1
              THEN Num(KthSmallest(pre, (NKept(pre) + 1) \div 2), 1)
              ELSE Num(MiddleSum(pre), 2)

\* C1 as the code has it: the median is computed in the element type.  For
\* odd n it is the middle element; for even n it is the mean of the two
\* middle elements for floating-point data, and for integer data half their
\* sum truncated toward zero (an integer).
C1_MedianInElementType ==
  MedianCalled =>
    /\ IsNum(out.val)
    /\ IF NKept(pre) % 2 = 1
       THEN out.val = Num(KthSmallest(pre, (NKept(pre) + 1) \div 2), 1)
       ELSE IF IsFloat(pre.type)
       THEN out.val = Num(MiddleSum(pre), 2)
       ELSE /\ out.val.d = 1
            /\ Abs(2 * out.val.n - MiddleSum(pre)) <= 1
            /\ Abs(2 * out.val.n) <= Abs(MiddleSum(pre))

\* An integer sample of even size whose two middle elements have an odd sum:
\* the median returned is an integer, not their mean.
C1_Witness ==
  /\ MedianCalled
  /\ ~IsFloat(pre.type)
  /\ NKept(pre) % 2 = 0
  /\ MiddleSum(pre) % 2 = 1
  /\ out.val.d = 1
  /\ 2 * out.val.n # MiddleSum(pre)

QICalled == call.op = "quantile_index" /\ call.x >= 1
              /\ call.y >= 0 /\ call.y <= QDen

\* C2: for n >= 1 and q in [0,1], quantile_index(n, q) is the integer
\* nearest to (n-1)*q, the lower one on a tie at exactly one half (floor
\* when the fractional part is <= 0.5, ceil when it exceeds 0.5); so it is 0
\* for q = 0, n-1 for q = 1, and non-decreasing in q for fixed n.
C2_QuantileIndexRounds ==
  QICalled =>
    LET n == call.x
        qn == call.y
        p2 == 2 * (n - 1) * qn
    IN /\ out.st = "ok"
       /\ p2 - QDen <= 2 * QDen * out.idx
       /\ 2 * QDen * out.idx < p2 + QDen
       /\ qn = 0 => out.idx = 0
       /\ qn = QDen => out.idx = n - 1
       /\ \A q2 \in qn..QDen : QuantileIndex(n, q2, QDen) >= out.idx

\* A tie: (n-1)*q is exactly half way between two integers and the lower
\* one is returned.
C2_Witness ==
  /\ QICalled
  /\ 2 * (call.x - 1) * call.y = (2 * out.idx + 1) * QDen

NBSCalled == call.op = "no_blank_sorted"

\* C3: when the input's cached flags are unknown or accurate, for both
\* values of inplace, no_blank_sorted returns a dataset holding exactly the
\* multiset of the input's non-blank elements, with no blank value in it,
\* monotonic in the direction its flags declare; an empty or all-blank input
\* gives an empty dataset flagged increasing.
C3_ViewIsSortedNonBlankMultiset ==
  (NBSCalled /\ FlagsAccurate(pre)) =>
    LET v == out.view
    IN /\ v.type = pre.type
       /\ Count(v.arr, Blank(pre.type)) = 0
       /\ \A x \in DataVals(pre.type) : Count(v.arr, x) = Count(pre.arr, x)
       /\ v.flag.sort_ch
       /\ v.flag.sorted_i # v.flag.sorted_d
       /\ v.flag.sorted_i => NonDecreasing(v.arr)
       /\ v.flag.sorted_d => NonIncreasing(v.arr)
       /\ NKept(pre) = 0 => v.arr = <<>> /\ v.flag.sorted_i

\* An unsorted input with a blank in it: the view is shorter than the input
\* and in another order.
C3_Witness ==
  /\ NBSCalled
  /\ FlagsAccurate(pre)
  /\ NKept(pre) >= 2
  /\ NKept(pre) < Size(pre)
  /\ ~NonDecreasing(pre.arr)
  /\ ~NonIncreasing(pre.arr)
  /\ Size(out.view) = NKept(pre)

\* The operations that take the inplace flag.
InplaceOps ==
  {"no_blank_sorted", "median", "mad", "quantile", "quantile_function_index",
   "quantile_function", "mode", "clip_sigma", "clip_mad",
   "outlier_bydistance", "outlier_flat_cfp"}

\* An operation called with inplace false has returned.
NotInplaceCalled ==
  /\ call.op \in InplaceOps
  /\ ~call.inplace
  /\ loc.pc \in {"idle", "done"}
  /\ out.st = "ok"

PreView == NoBlankSorted(pre, call.inplace).nbs.arr

\* C9 as the specification states it: on a non-empty sorted blank-free
\* view, the index is NONE for a probe outside [min,max] and otherwise the
\* index of an element closest to the probe; the quantile function is
\* -infinity below the minimum, +infinity above the maximum and the finite
\* index/(size-1) for every probe inside [min,max], both ends included.
C9_QuantileFunctionInRange ==
  (call.op = "quantile_function" /\ NKept(pre) >= 1) =>
    LET v == call.x
        n == NKept(pre)
    IN IF v < KthSmallest(pre, 1)
       THEN out.idx = NoIndex /\ out.val = NInf
       ELSE IF v > KthSmallest(pre, n)
       THEN out.idx = NoIndex /\ out.val = PInf
       ELSE /\ out.idx \in 0..(n - 1)
            /\ \A j \in 1..n :
                 Abs(PreView[out.idx + 1] - v) <= Abs(PreView[j] - v)
            /\ IsNum(out.val)
            /\ n >= 2 => out.val = Num(out.idx, n - 1)

\* C10 as the specification states it: on a blank-free view of two or more
\* distinct values and for q strictly inside (0,1), the quantile function
\* of the q-quantile is the finite value quantile_index(size, q)/(size-1),
\* within 0.5/(size-1) of q.
C10_RoundTrip ==
  (/\ call.op = "round_trip"
   /\ NKept(pre) = Size(pre)
   /\ Size(pre) >= 2
   /\ \A i, j \in 1..Size(pre) : pre.arr[i] = pre.arr[j] => i = j
   /\ call.x > 0
   /\ call.x < QDen) =>
    LET n == Size(pre)
    IN /\ out.val = Num(QuantileIndex(n, call.x, QDen), n - 1)
       /\ 2 * (n - 1) * Abs(out.val.n * QDen - call.x * out.val.d)
            <= QDen * out.val.d

\* A clipping call has returned its output array.
ClipDone ==
  /\ call.op \in {"clip_sigma", "clip_mad"}
  /\ loc.pc = "done"
  /\ out.st = "ok"

ClipAllNaN ==
  \A f \in {"used", "median", "std2", "mad", "mean", "clips"} :
    ~IsNum(out.val[f])

\* The spread column of the clipping variant called: the (squared) STD of
\* sigma clipping, the MAD of MAD clipping.
ClipSpreadCol == IF IsSigma THEN out.val.std2 ELSE out.val.mad

\* C5 as the specification states it: clipping data with no non-blank
\* element gives an output whose every field is NaN; clipping data with
\* exactly one non-blank element gives center = that element, spread = 0,
\* count-used = 1 and iterations-performed = 1.
C5_DegenerateClip ==
  ClipDone =>
    /\ NKept(pre) = 0 => ClipAllNaN
    /\ NKept(pre) = 1 =>
         /\ out.val.median = Num(KthSmallest(pre, 1), 1)
         /\ ClipSpreadCol = Num(0, 1)
         /\ out.val.used = Num(1, 1)
         /\ out.val.clips = Num(1, 1)

\* The sub-range the loop of statistics_clip has retained when it ends.
Retained == SubSeq(loc.nbs.arr, loc.start + 1, loc.start + loc.size)

\* C6 as the specification states it: a result of clipping two or more
\* elements that is not all NaN describes the final retained sub-range:
\* count-used is its length (at most the original size), center its
\* median, spread its STD or MAD, and every requested extra statistic is
\* computed over the same elements.
C6_ResultDescribesRetained ==
  (ClipDone /\ NKept(pre) >= 2 /\ ~ClipAllNaN) =>
    LET type == loc.nbs.type
        R == Retained
        madR == MadInSortedNoBlank(Data(type, R, NoFlags),
                                   MedInSorted(type, R))
    IN /\ out.val.used = Num(Len(R), 1)
       /\ Len(R) <= Size(pre)
       /\ out.val.median = MedInSorted(type, R)
       /\ IF IsSigma THEN out.val.std2 = Std2(R) ELSE out.val.mad = madR
       /\ "mean" \in call.g => out.val.mean = Mean(R)
       /\ "std" \in call.g => out.val.std2 = Std2(R)
       /\ "mad" \in call.g => out.val.mad = madR

\* The loop has gone past a round (it has clipped) and computes the next.
ClipNextRound ==
  /\ loc.pc = "loop"
  /\ loc.num >= 1
  /\ loc'.pc \in {"loop", "broke"}

\* C7 as the specification states it: whenever the loop continues past
\* round k and computes round k+1, the spread of round k+1 is at most the
\* spread of round k.
C7_SpreadNeverIncreases ==
  [][ClipNextRound => ~RLt(loc.spread2, loc'.spread2)]_vars

\* C7 as the code has it: whenever the loop continues past round k and
\* computes round k+1, round k+1 is computed on a sub-range of the range of
\* round k, and its spread can exceed that of round k; under the tolerance
\* policy the loop continues past round k+1 only when the spread of round k+1
\* is strictly below that of round k, so a round whose spread is not below
\* that of the round before is the last one.
C7_IncreaseEndsToleranceLoop ==
  [][ClipNextRound =>
       /\ loc'.wstart >= loc.wstart
       /\ loc'.wstart + loc'.wsize <= loc.wstart + loc.wsize
       /\ (ByTolerance(call.y) /\ loc'.pc = "loop") =>
            RLt(loc'.spread2, loc.spread2)]_vars

\* Under the tolerance policy a round after the first has computed a spread
\* above that of the round before, and has ended the loop.
C7_Witness ==
  /\ call.op \in {"clip_sigma", "clip_mad"}
  /\ loc.pc = "broke"
  /\ ByTolerance(call.y)
  /\ loc.num >= 1
  /\ RLt(loc.old2, loc.spread2)

\* A call of the mode with an acceptable mirror distance.
ModeCalled == call.op = "mode" /\ call.x.n > 0

ModeReturned == ModeCalled /\ loc.pc = "done"

ModeFields == {"mode", "quantile", "sym", "symval"}

\* C8: for every input and every mirror distance > 0, the mode returns
\* either a result whose four fields are all NaN, or a result whose four
\* fields are all defined, with the symmetry ratio strictly above the
\* good-symmetry threshold, the quantile in [0,1] and the mode value the
\* element of the blank-free sorted data at index quantile*(size-1); no
\* result is partly NaN, and an empty or all-blank input gives the all-NaN
\* result without an error.
C8_ModeAllOrNothing ==
  /\ ModeCalled => out.st = "ok"
  /\ ModeReturned =>
       LET v == out.val
           n == NKept(pre)
       IN /\ \/ \A f \in ModeFields : v[f] = NaN
             \/ /\ \A f \in ModeFields : IsNum(v[f])
                /\ RLt(ModeGoodSym, v.sym)
                /\ v.quantile.n >= 0
                /\ v.quantile.n <= v.quantile.d
                /\ (v.quantile.n * (n - 1)) % v.quantile.d = 0
                /\ v.mode =
                     Num(PreView[(v.quantile.n * (n - 1)) \div v.quantile.d
                                 + 1], 1)
          /\ n = 0 => \A f \in ModeFields : v[f] = NaN

\* The search has narrowed its interval at least once and the mode it found
\* is accepted: the four fields are defined.
C8_Witness ==
  /\ ModeReturned
  /\ loc.steps >= 1
  /\ \A f \in ModeFields : IsNum(out.val[f])
  /\ RLt(ModeGoodSym, out.val.sym)

\* A call of quantile with q in [0,1] on data with a non-blank element.
QuantileCalled ==
  /\ call.op = "quantile"
  /\ call.x >= 0
  /\ call.x <= QDen
  /\ NKept(pre) >= 1

\* C11 as the specification states it: quantile means the same for both
\* sort directions: for every q in [0,1] the value returned is the element
\* at quantile_index(size, q) of the ascending view of the same elements,
\* whether the view is ascending or descending; q = 0 gives the minimum and
\* q = 1 the maximum.
C11_QuantileDirectionFree ==
  QuantileCalled =>
    LET n == NKept(pre)
    IN /\ out.val = Num(KthSmallest(pre, QuantileIndex(n, call.x, QDen) + 1), 1)
       /\ call.x = 0 => out.val = Num(KthSmallest(pre, 1), 1)
       /\ call.x = QDen => out.val = Num(KthSmallest(pre, n), 1)

\* The output array of MAD clipping the window_size-1 gaps before scan
\* position i, freshly computed from the values of that window.
FreshBaseline(a, i, ws, multip, param) ==
  ClipResult(
    ClipLoop(ClipFirstLoc(NoBlankSorted(
                            Data("float64", OutlierDist(a, i, ws, TRUE, 0),
                                 NoFlags), FALSE)),
             FALSE, multip, param),
    FALSE, param, OutlierClipFlags)

\* The scan positions whose gap exceeds the baseline of their own window.
LargeGaps(a, ws, sigma, multip, param) ==
  {i \in ws..(Len(a) - 1) :
     OutlierExceeds(a[i + 1] - a[i],
                    FreshBaseline(a, i, ws, multip, param).median,
                    FreshBaseline(a, i, ws, multip, param).std2, sigma)}

\* A forward call of outlier_bydistance with a window above 2, a positive
\* sigma and clipping parameters that are accepted.
ByDistanceCalled ==
  /\ call.op = "outlier_bydistance"
  /\ call.h.fwd
  /\ call.x > 2
  /\ call.y.n > 0
  /\ ClipParamsOk(call.h.multip, call.h.param)

\* C12 as the specification states it: the forward scan reports the element
\* just before the first position i >= window_size whose gap v[i]-v[i-1]
\* exceeds baseline_median + sigma*baseline_std, the baseline being the MAD
\* clip of the window_size-1 gaps of the window at i, computed from that
\* window's values alone; it reports nothing when no position qualifies.
C12_FirstLargeGap ==
  ByDistanceCalled =>
    LET a == PreView
        big == LargeGaps(a, call.x, call.y, call.h.multip, call.h.param)
    IN IF big = {} THEN out.idx = NoIndex /\ out.val = NaN
       ELSE /\ out.idx = MinOf(big) - 1
            /\ out.val = Num(a[MinOf(big)], 1)

\* A call of outlier_flat_cfp whose arguments are all accepted.
FlatCalled ==
  /\ call.op = "outlier_flat_cfp"
  /\ call.x > 0
  /\ call.y.n > 0
  /\ ClipParamsOk(call.h.multip, call.h.param)

\* The scan positions that start numcontig consecutive positions whose
\* difference the scan found above the threshold (call.g).
Flagged == {call.g[i] : i \in 1..Len(call.g)}

FullRuns ==
  {f \in Flagged : \A j \in 0..(call.h.numcontig - 1) : f + j \in Flagged}

\* C13 as the specification states it: outlier_flat_cfp returns the index f
\* and the element at f exactly when numcontig consecutive differences, at
\* the scan positions f .. f+numcontig-1, were each above the threshold, f
\* being the start of the first such run; otherwise it finds nothing.  So a
\* shorter run that reaches the end of the scan gives nothing, and with
\* numcontig = 1 the first position above the threshold is returned.
C13_FirstFullRun ==
  FlatCalled =>
    IF FullRuns = {} THEN out.idx = NoIndex /\ out.val = NaN
    ELSE /\ out.idx = MinOf(FullRuns)
         /\ out.val = Num(PreView[out.idx + 1], 1)

\* The non-blank elements of the dataset a call was given.
PreVals == {pre.arr[k] : k \in {j \in 1..Size(pre) : pre.arr[j] # Blank(pre.type)}}

\* The range regular_bins divides: each end as given, or the smallest
\* (largest) non-blank element.
RangeMin ==
  IF call.g # <<>> /\ IsNum(call.g[1]) THEN call.g[1]
  ELSE Num(CHOOSE m \in PreVals : \A x \in PreVals : m <= x, 1)
RangeMax ==
  IF call.g # <<>> /\ IsNum(call.g[2]) THEN call.g[2]
  ELSE Num(CHOOSE m \in PreVals : \A x \in PreVals : m >= x, 1)

\* Boundary k (0 .. numbins) of the bins of the range, before any shift.
Boundary(k) ==
  FAdd(RangeMin, FDiv(FMul(Num(k, 1), FSub(RangeMax, RangeMin)), Num(call.x, 1)))

\* regular_bins was called on an input with a non-blank element, for one
\* bin or more.
RegularBinsCalled ==
  /\ call.op = "regular_bins"
  /\ call.x >= 1
  /\ PreVals # {}

\* C15 as the specification states it: without a mirror value regular_bins
\* returns numbins centres, centre i = min + i*width + width/2 with
\* width = (max-min)/numbins, uniformly spaced and strictly increasing,
\* tagged regular; inputs whose minimum equals their maximum included.
C15_RegularCentres ==
  (RegularBinsCalled /\ ~IsNum(call.y)) =>
    /\ out.st = "ok"
    /\ loc.bins.status = "regular"
    /\ Len(loc.bins.arr) = call.x
    /\ \A i \in 1..call.x :
         loc.bins.arr[i] = FDiv(FAdd(Boundary(i - 1), Boundary(i)), Num(2, 1))
    /\ \A i \in 1..(call.x - 1) : FLt(loc.bins.arr[i], loc.bins.arr[i + 1])
    /\ \A i \in 2..(call.x - 1) :
         FSub(loc.bins.arr[i + 1], loc.bins.arr[i])
           = FSub(loc.bins.arr[i], loc.bins.arr[i - 1])

\* The distance of boundary k to the mirror value.
MirrorGap(k) ==
  IF FLt(Boundary(k), call.y) THEN FSub(call.y, Boundary(k))
  ELSE FSub(Boundary(k), call.y)

\* C16 as the specification states it: with a mirror value inside [min,max],
\* in any bin, every centre is shifted by one offset and the boundary that
\* was nearest to the mirror value before the shift lies on it afterwards.
C16_MirrorOnNearestBoundary ==
  (/\ RegularBinsCalled
   /\ IsNum(call.y)
   /\ FLe(RangeMin, call.y)
   /\ FLe(call.y, RangeMax)) =>
    /\ out.st = "ok"
    /\ \E k \in 0..call.x :
         /\ \A k2 \in 0..call.x : FLe(MirrorGap(k), MirrorGap(k2))
         /\ \A i \in 1..call.x :
              loc.bins.arr[i]
                = FAdd(FDiv(FAdd(Boundary(i - 1), Boundary(i)), Num(2, 1)),
                       FSub(call.y, Boundary(k)))

\* The range the bins cover and the width of a bin, from the centres.
CoverWidth == FSub(loc.bins.arr[2], loc.bins.arr[1])
CoverMin == FSub(loc.bins.arr[1], FDiv(CoverWidth, Num(2, 1)))
CoverMax == FAdd(loc.bins.arr[Len(loc.bins.arr)], FDiv(CoverWidth, Num(2, 1)))

\* The elements (by position) inside the range the bins cover.
InRange ==
  {k \in 1..Size(pre) :
     /\ ~IsNaN(pre.type, pre.arr[k])
     /\ FLe(CoverMin, Num(pre.arr[k], 1))
     /\ FLe(Num(pre.arr[k], 1), CoverMax)}

\* The bin (1-based) of the in-range element at position k:
\* floor((x-min)/binwidth), clamped to the last bin.
BinOf(k) ==
  LET q == FDiv(FSub(Num(pre.arr[k], 1), CoverMin), CoverWidth)
  IN IF q.n \div q.d >= Len(loc.bins.arr) THEN Len(loc.bins.arr)
     ELSE (q.n \div q.d) + 1

\* histogram or cfp was called with regular bins on a dataset that has a
\* non-blank element.
OnRegularBins(op) ==
  /\ call.op = op
  /\ loc.bins.status = "regular"
  /\ PreVals # {}

\* C14 as the specification states it: for every non-empty view and regular
\* bins the plain histogram counts each in-range element once, in bin
\* floor((x-min)/binwidth) clamped to the last bin, and nothing else, so that
\* the counts sum to the number of in-range elements; cfp is the running sum
\* of that histogram: non-decreasing, its last value the histogram's total,
\* or exactly 1 when normalized.
C14_CountsAndRunningSum ==
  /\ (OnRegularBins("histogram") /\ ~call.x /\ ~call.y) =>
       /\ out.st = "ok"
       /\ Len(loc.hist.arr) = Len(loc.bins.arr)
       /\ FSum(loc.hist.arr) = Num(Cardinality(InRange), 1)
       /\ FLt(Num(0, 1), CoverWidth) =>
            \A b \in 1..Len(loc.bins.arr) :
              loc.hist.arr[b] = Num(Cardinality({k \in InRange : BinOf(k) = b}), 1)
  /\ OnRegularBins("cfp") =>
       /\ out.st = "ok"
       /\ Len(loc.hist.arr) = Len(loc.bins.arr)
       /\ \A b \in 1..(Len(loc.hist.arr) - 1) :
            FLe(loc.hist.arr[b], loc.hist.arr[b + 1])
       /\ loc.hist.arr[Len(loc.hist.arr)]
            = IF loc.hist.type = "float32" THEN Num(1, 1)
              ELSE Num(Cardinality(InRange), 1)

\* The input of the call had no non-blank element: it was empty, or all of
\* its elements were blank.
NoData == NonBlank(pre.type, pre.arr) = <<>>

\* C17 as the specification states it: median, mad, mean, std and mean_std
\* (both outputs) return NaN or the no-data value, without an error,
\* whenever the input has no non-blank element, whatever its length.
C17_NoDataGivesNaN ==
  (NoData /\ call.op \in {"median", "mad", "mean", "std", "mean_std"}) =>
    /\ out.st = "ok"
    /\ out.val \in {NaN, BlankVal(pre.type)}
    /\ call.op = "mean_std" => loc.std2 = NaN

\* An outlier function was called against its contract: a sigma or a
\* threshold that is not positive, or clipping parameters that
\* clip_sigma and clip_mad reject (multiplier <= 0, param <= 0, a
\* non-integral param >= 1).
ContractViolated ==
  /\ call.op \in {"outlier_bydistance", "outlier_flat_cfp"}
  /\ \/ call.y.n <= 0
     \/ ~ClipParamsOk(call.h.multip, call.h.param)

\* C18 as the specification states it: a call that violates the caller's
\* contract always fails with InvalidArgument, never returns normally or
\* with 'none found', whatever the data, and when it fails with in_place
\* set the caller's buffer has not been modified.
C18_ViolationsFail ==
  ContractViolated =>
    /\ out.st = "abort"
    /\ call.inplace => input = pre

\* The quantile a call was given (call.y of quantile_index, call.x of
\* quantile, over QDen) is outside [0,1].
QuantileOutside(qn) == qn < 0 \/ qn > QDen

BadBinsOrInput == loc.bins.status # "regular" \/ Size(pre) = 0

\* cfp has to make the histogram itself: none came with the bins, or one
\* of fractions that do not sum to 1.
CfpMakesHistogram ==
  \/ call.y.st = "null"
  \/ (call.y.type = "float32" /\ FSum(call.y.arr) # Num(1, 1))

\* C20 as the specification states it: histogram fails with InvalidArgument
\* exactly when the bins are not regular, the input is empty, or normalize
\* and maxone are both set, so that it accepts the bins regular_bins makes
\* for any numbins >= 1; cfp fails only on irregular bins or empty input.
C20_FailsOnlyOnThese ==
  /\ call.op = "histogram" =>
       ((out.st = "abort") <=> (BadBinsOrInput \/ (call.x /\ call.y)))
  /\ call.op = "cfp" => ((out.st = "abort") => BadBinsOrInput)

\* C20, amended: histogram fails with InvalidArgument exactly when the bins
\* have one centre only, are not regular, the input is empty, or normalize
\* and maxone are both set; cfp fails exactly when the bins are not
\* regular, the input is empty, or it has to make the histogram itself
\* from bins of one centre.
C20_FailsAlsoOnOneBin ==
  /\ call.op = "histogram" =>
       ((out.st = "abort")
          <=> (Len(loc.bins.arr) = 1 \/ BadBinsOrInput \/ (call.x /\ call.y)))
  /\ call.op = "cfp" =>
       ((out.st = "abort")
          <=> (BadBinsOrInput \/ (CfpMakesHistogram /\ Len(loc.bins.arr) = 1)))

\* histogram was called on a dataset that is not empty, with the regular
\* bins of numbins = 1 and at most one of normalize and maxone, and failed.
C20_Witness ==
  /\ call.op = "histogram"
  /\ Size(pre) > 0
  /\ loc.bins.status = "regular"
  /\ Len(loc.bins.arr) = 1
  /\ ~(call.x /\ call.y)
  /\ out.st = "abort"

\* C21 as the specification states it: on an input that has no blank value
\* and is already sorted, increasing or decreasing, no_blank_sorted returns
\* the caller's own dataset and allocates nothing, with inplace true and
\* with inplace false.
C21_SortedInputIsBorrowed ==
  ( /\ NBSCalled
    /\ FlagsAccurate(pre)
    /\ Size(pre) >= 1
    /\ NKept(pre) = Size(pre)
    /\ NonDecreasing(pre.arr) \/ NonIncreasing(pre.arr) )
  => /\ out.borrowed
     /\ out.view = input

\* The loop of a clipping call on two or more elements runs one more round.
ClipRoundRuns ==
  /\ call.op \in {"clip_sigma", "clip_mad"}
  /\ loc.pc = "loop"
  /\ loc'.pc \in {"loop", "broke"}

\* (oldspread - spread)/spread < param for the spread the round computes
\* (not 0) and the spread of the round before, as a signed comparison:
\* oldspread < (1 + param)*spread, on the squares of the two spreads.
ChangeBelowParam ==
  LET p == call.y
  IN RLt(loc.old2, RMul(Sq(Num(p.n + p.d, p.d)), loc'.spread2))

\* C22: a round of the clipping loop ends the loop, before it clips, exactly
\* when the spread it computed is 0 (either policy, any round) or, with
\* param < 1 and at least one round completed, (oldspread - spread)/spread
\* < param as a signed value, so that a larger spread ends the loop too; the
\* first round is never ended by the tolerance test.
C22_LoopStopsOnSpread ==
  [][ClipRoundRuns =>
       /\ loc'.pc = "broke" <=>
            \/ loc'.spread2.n = 0
            \/ /\ call.y.n < call.y.d
               /\ loc.num >= 1
               /\ ChangeBelowParam
       /\ (loc.num = 0 /\ loc'.spread2.n # 0) => loc'.pc = "loop"
       /\ (loc'.pc = "broke" /\ loc.num >= 1 /\ RLt(loc.old2, loc'.spread2))
            => call.y.n < call.y.d]_vars

\* Under the tolerance policy the third round has computed a spread that is
\* not 0, is not above that of the second and is within the tolerance of it,
\* after a second round that the test let go on: the loop has ended there.
C22_Witness ==
  /\ call.op \in {"clip_sigma", "clip_mad"}
  /\ loc.pc = "broke"
  /\ call.y.n < call.y.d
  /\ loc.num = 2
  /\ loc.spread2.n # 0
  /\ ~RLt(loc.old2, loc.spread2)

\* A clipping call on two or more elements has reached its loop.
ClipInLoop ==
  /\ call.op \in {"clip_sigma", "clip_mad"}
  /\ loc.pc \in {"loop", "broke"}

\* C23, the part within reach of the bounds: 'num' never exceeds maxnum (param itself when
\* param >= 1, the fixed upper bound otherwise) and every pass of the loop
\* either ends it or adds one to 'num'; under the fixed-round policy the
\* loop ends with num = param unless it ended on a spread of 0 or on an
\* empty retained range.  (Under the tolerance policy num = maxnum needs
\* more than ClipMaxConverge elements.)
C23_RoundsBounded ==
  /\ [](ClipInLoop => loc.num <= MaxNum(call.y))
  /\ [][ClipRoundRuns =>
          \/ loc'.pc = "broke" /\ loc'.num = loc.num
          \/ loc'.pc = "loop" /\ loc'.num = loc.num + 1]_vars
  /\ []((ClipDone /\ NKept(pre) >= 2 /\ call.y.n >= call.y.d) =>
          \/ loc.num = call.y.n
          \/ loc.spread2.n = 0
          \/ loc.size = 0)

\* x lies in [center - multip*spread, center + multip*spread], for the
\* center and the spread the pass has computed.
InClosedRange(x) ==
  ~RLt(RMul(Sq(call.x), loc'.spread2), Sq(RSub(Num(x, 1), loc'.center)))

\* C24 as the specification states it: a pass of the clipping loop that
\* narrows leaves a contiguous sub-range inside the one it started with
\* (the start does not move left, the end does not move right, the length
\* is between 0 and the length before), made of exactly the elements x of
\* the sub-range before with center - multip*spread <= x <= center +
\* multip*spread, on increasing and on decreasing views.
C24_RetainedIsClosedRange ==
  [][(ClipRoundRuns /\ loc'.pc = "loop") =>
       LET w == SubSeq(loc.nbs.arr, loc.start + 1, loc.start + loc.size)
       IN /\ loc'.start >= loc.start
          /\ loc'.start + loc'.size <= loc.start + loc.size
          /\ loc'.size >= 0
          /\ loc'.size <= loc.size
          /\ SubSeq(loc'.nbs.arr, loc'.start + 1, loc'.start + loc'.size)
               = SelectSeq(w, InClosedRange)]_vars

\* A call of mode_golden_section on the view of a mode call.
ModeSearchStep ==
  /\ call.op = "mode"
  /\ loc.pc = "search"
  /\ loc'.pc \in {"search", "found"}

\* The two ends the search starts from: the quantile indices of 0.01 and
\* 0.55 in the view.
ModeFirstLow == QuantileIndex(Len(loc.nbs.arr), ModeMinQ.n, ModeMinQ.d)
ModeFirstHigh == QuantileIndex(Len(loc.nbs.arr), ModeMaxQ.n, ModeMaxQ.d)

\* (highi - lowi) < tolerance*(midi + di) or (highi - lowi) <= 3, for the
\* probe di of the call; an integer is below a ratio iff it is below the
\* ratio rounded up.
ModeStops ==
  \/ loc.highi - loc.lowi
       < CeilDiv(ModeTolerance.n * (loc.midi + loc'.di), ModeTolerance.d)
  \/ loc.highi - loc.lowi <= 3

\* C25: on every non-empty view the golden-section search ends: a call of
\* mode_golden_section that does not return has low < mid < high and a
\* probe strictly between low and high that is not mid, and leaves a
\* strictly smaller high - low, again with low < mid < high; a call returns
\* exactly when (high - low) < tolerance*(mid + probe) or (high - low) <= 3,
\* and returns (low + high)/2, an index between the two ends the search
\* started from and so inside the view.
C25_SearchNarrowsAndEnds ==
  [][ModeSearchStep =>
       /\ loc'.pc = "found" <=> ModeStops
       /\ ModeFirstLow <= loc.lowi
       /\ loc.highi <= ModeFirstHigh
       /\ loc.lowi <= loc.highi
       /\ loc'.pc = "search" =>
            /\ loc.lowi < loc.midi
            /\ loc.midi < loc.highi
            /\ loc.lowi < loc'.di
            /\ loc'.di < loc.highi
            /\ loc'.di # loc.midi
            /\ loc'.highi - loc'.lowi < loc.highi - loc.lowi
            /\ loc'.lowi < loc'.midi
            /\ loc'.midi < loc'.highi
       /\ loc'.pc = "found" =>
            /\ loc'.modeindex = (loc.lowi + loc.highi) \div 2
            /\ ModeFirstLow <= loc'.modeindex
            /\ loc'.modeindex <= ModeFirstHigh
            /\ loc'.modeindex < Len(loc.nbs.arr)]_vars

\* The search has returned after it narrowed its interval three times.
C25_Witness ==
  /\ call.op = "mode"
  /\ loc.pc = "found"
  /\ loc.steps = 3
  /\ loc.highi - loc.lowi <= 3

\* The score dd is strictly lower than the score midd, as the unsigned
\* numbers they are (the sentinel is the largest of them).
ScoreLower(dd, midd) ==
  /\ dd # ModeMirrorAbove
  /\ SzLt(dd, midd)

\* C26: a call of mode_golden_section that goes on with a probe whose score
\* is the ABOVE sentinel keeps low and takes a strictly smaller high: the
\* probe when the probe is above mid, and otherwise the old mid, the probe
\* becoming the new mid; so high becomes max(probe, old mid), and no later
\* call raises it.  With any other score the standard rule applies: the
\* probe becomes the new mid iff its score is strictly lower than that of
\* mid (the old mid then becomes the end on its far side), and otherwise
\* becomes the end on its own side.
C26_AboveGoesLower ==
  [][(ModeSearchStep /\ loc'.pc = "search") =>
       LET di == loc'.di
           dd == loc'.dd
           above == di > loc.midi
       IN /\ loc'.highi <= loc.highi
          /\ loc'.lowi >= loc.lowi
          /\ dd = ModeMirrorAbove =>
               /\ loc'.lowi = loc.lowi
               /\ loc'.highi < loc.highi
               /\ loc'.highi = IF above THEN di ELSE loc.midi
               /\ loc'.midi = IF above THEN loc.midi ELSE di
          /\ dd # ModeMirrorAbove =>
               /\ loc'.midi = di <=> ScoreLower(dd, loc.midd)
               /\ loc'.midi = di =>
                    /\ loc'.lowi = IF above THEN loc.midi ELSE loc.lowi
                    /\ loc'.highi = IF above THEN loc.highi ELSE loc.midi
               /\ loc'.midi # di =>
                    /\ loc'.midi = loc.midi
                    /\ loc'.lowi = IF above THEN loc.lowi ELSE di
                    /\ loc'.highi = IF above THEN di ELSE loc.highi]_vars

\* After two narrowing calls or more, the probe of the last one scored
\* ABOVE and has become the new mid, with its score: it was below the old
\* mid, which is above it as the new high.
C26_Witness ==
  /\ call.op = "mode"
  /\ loc.pc = "search"
  /\ loc.steps >= 2
  /\ loc.dd = ModeMirrorAbove
  /\ loc.midi = loc.di
  /\ loc.midd = ModeMirrorAbove
  /\ loc.highi > loc.midi

\* The locals of the scan of outlier_flat_cfp on the float64 array a when
\* the body of the loop at position k is about to run (k = p-a, from d = 2
\* on), or the locals the loop ended with before that.
RECURSIVE FlatLocAt(_, _, _)
FlatLocAt(a, c, k) ==
  IF k = 2
  THEN FlatLoc(2, [i \in 1..c.numprev |-> 0], NoIndex, 0, <<>>, "scan")
  ELSE LET l == FlatLocAt(a, c, k - 1)
       IN IF l.st # "scan" \/ l.k # k - 1 THEN l
          ELSE LET b == FlatBody(a, l, a[k + 2] - a[k - 2], c, TRUE)
               IN IF b.st = "scan" THEN [b EXCEPT !.k = k] ELSE b

\* The difference the scan computes at position k: *(p+d) - *(p-d).
FlatDiff(a, k) == a[k + 3] - a[k - 1]

\* The positions of a call at which the scan computes a baseline: the
\* buffer is full and the loop has not ended.
FlatBaselineAt ==
  {k \in (call.x + 2)..(Len(PreView) - 3) :
     LET l == FlatLocAt(PreView, call.h, k) IN l.st = "scan" /\ l.k = k}

\* C27 as the specification states it: at every position at which
\* outlier_flat_cfp computes a baseline, the rolling buffer 'prev' holds
\* exactly the multiset of the numprev most recent differences before the
\* position, each new difference having replaced the oldest one, also after
\* the buffer was handed to the MAD clipping.
C27_BufferHoldsLastDifferences ==
  (FlatCalled /\ IsFloat(pre.type)) =>
    \A k \in FlatBaselineAt :
      LET prev == FlatLocAt(PreView, call.h, k).prev
          last == [i \in 1..call.x |-> FlatDiff(PreView, k - call.x - 1 + i)]
      IN \A x \in 0..OutlierMaxVal : Count(prev, x) = Count(last, x)

\* OUTLIER_BYTYPE: the indices of 'arr' read at scan position i, by the
\* filling of the distance array and by the test of arr[i]-arr[i-1].
OutlierReads(i, ws, fwd) ==
  {i, i - 1}
    \cup UNION {IF fwd THEN {i - ws + j + 1, i - ws + j}
                ELSE {i + ws - j + 1, i + ws - j} : j \in 0..(ws - 2)}

\* OUTLIER_FLAT_CFP_BYTYPE: the indices of 'a' read at scan position k,
\* *(p+d) and *(p-d).
FlatReads(k) == {k + 2, k - 2}

\* The scan positions of a call of outlier_bydistance that returned: from
\* window_size to the position it stopped at, or to the end of the scan.
OutlierVisited ==
  IF Len(PreView) = 0 \/ call.x <= 2 \/ call.x >= Len(PreView) THEN {}
  ELSE IF call.h.fwd
  THEN call.x..(IF out.idx # NoIndex THEN out.idx + 1 ELSE Len(PreView) - 1)
  ELSE (IF out.idx # NoIndex THEN out.idx + 1 ELSE 1)..call.x

\* The scan positions of a call of outlier_flat_cfp that returned: the body
\* of the do-while loop runs at d = 2 before any test, and the loop ends on
\* its break, numcontig - 1 positions after the one it returns, or at the
\* last position, size - d - 1.
FlatVisited ==
  {2} \cup {k \in 2..(Len(PreView) - 3) :
              out.idx # NoIndex => k <= out.idx + call.h.numcontig - 1}

\* C28 as the specification states it: no call of outlier_bydistance or of
\* outlier_flat_cfp reads an element outside the blank-free sorted view,
\* every index read being in [0, size-1], for every size of the view (0 to
\* 4 too), every window_size, both directions and every numprev and
\* numcontig; and a view too short to scan gives 'none found'.
C28_ReadsInsideView ==
  /\ (call.op = "outlier_bydistance" /\ out.st = "ok") =>
       /\ \A i \in OutlierVisited :
            OutlierReads(i, call.x, call.h.fwd)
              \subseteq 0..(Len(PreView) - 1)
       /\ Len(PreView) <= call.x => out.idx = NoIndex /\ out.val = NaN
  /\ (FlatCalled /\ out.st = "ok") =>
       /\ \A k \in FlatVisited :
            FlatReads(k) \subseteq 0..(Len(PreView) - 1)
       /\ Len(PreView) < 5 => out.idx = NoIndex /\ out.val = NaN

\* C29 as the specification states it: when clip_sigma or clip_mad returns
\* from a call with inplace set, the caller's dataset is the complete
\* blank-free sorted data again: its size is the number of non-blank
\* elements of the input and it holds all of them in sorted order, whatever
\* number of elements the rounds clipped.
C29_CallerDataRestored ==
  (ClipDone /\ call.inplace) =>
    /\ Size(input) = NKept(pre)
    /\ input.arr = PreView

\* The values of i at which the loop of mode_mirror_max_index_diff, from i
\* on, computes a mirrored value.
RECURSIVE MirrVisited(_, _, _, _, _, _)
MirrVisited(type, a, m, md, i, prevj) ==
  LET size == Len(a)
      numcheck == size \div 2
      interval == IF numcheck > 1000 THEN numcheck \div 1000 ELSE 1
  IN IF ~(i < numcheck /\ i <= m /\ m + i < size) THEN {}
     ELSE LET j == MirrJ(a, m, MirrValue(type, a, m, i), prevj)
          IN {i} \cup (IF SzLt(j + ErrorDiff(md, m), i) THEN {}
                       ELSE MirrVisited(type, a, m, md, i + interval, j))

\* The point whose score the search computed last: the first middle point,
\* then the probe of each call of mode_golden_section that went on.
ModeMirrorAt == IF loc.steps = 0 THEN loc.midi ELSE loc.di

\* C30 as the specification states it: the arithmetic done in the element
\* type does not wrap around for a fixed-width integer type: every mirrored
\* value 2*v[m]-v[m-i] the mode search uses equals its mathematical value,
\* and the median of an even number of elements is half the sum of the two
\* middle elements, truncated.
C30_NoWrapInElementType ==
  (call.op = "mode" /\ loc.pc = "search" /\ ~IsFloat(loc.nbs.type)) =>
    LET a == loc.nbs.arr
        type == loc.nbs.type
        n == Len(a)
    IN /\ \A i \in MirrVisited(type, a, ModeMirrorAt, call.x, 1, 0) :
            MirrValue(type, a, ModeMirrorAt, i)
              = 2 * a[ModeMirrorAt + 1] - a[ModeMirrorAt - i + 1]
       /\ (n > 0 /\ n % 2 = 0) =>
            MedInSorted(type, a)
              = Num(ToType(type, CDiv(a[(n \div 2) + 1] + a[n \div 2], 2)), 1)

====
